---- MODULE Spec2Model ----
(***************************************************************************)
(* WebSocketHandler (src/lib/alert/alertManager.js, lines 291-1272): the   *)
(* session registry, the room registry, the change-feed table and the      *)
(* per-session heartbeat timer, together with the storage collaborators    *)
(* the handler can be constructed with (FirebaseDB, DatabaseAdapter, and a *)
(* store without subscribe), the frames the handler sends and the storage  *)
(* calls it has in flight.                                                 *)
(*                                                                         *)
(* Time is counted in units of the heartbeat interval: one Advance step is *)
(* one interval, and every scheduled interval timer fires once per unit.   *)
(***************************************************************************)
EXTENDS Integers, FiniteSets, Sequences, Bags, TLC

\* ---------------------------------------------------------------- bounds
\* number of connections accepted over a run (session identities 1..MaxSessions)
MaxSessions == 2
\* number of change feeds the storage collaborator hands out over a run
MaxFeeds == 2
\* number of storage calls in flight at the same time
MaxPending == 2

\* ------------------------------------------------------- configuration
\* config.heartbeatInterval, in time units
heartbeatInterval == 1
\* config.enableHeartbeat
enableHeartbeat == TRUE
\* config.maxConnections of the default configuration
DefaultMaxConnections == 10
\* config.enableDataValidation
enableDataValidation == TRUE
\* config.enableDatabaseSync
enableDatabaseSync == TRUE
\* config.enableRoomBroadcast
enableRoomBroadcast == TRUE
\* config.dbTableName: the table sensor_data messages are written to
dbTableName == "t1"
\* field names a sensor_data payload and config.requiredFields can hold
FieldNames == {"temperature"}

Sessions == 1..MaxSessions
Tables == {"t1"}
\* const roomId = `db_${table}`
RoomOf(table) == "db_" \o table
\* the resource rooms of the tables
ResourceRooms == {RoomOf(t) : t \in Tables}
\* room identifiers a join_room / leave_room message can name
RoomNames == {"lobby"} \cup ResourceRooms
\* the storage collaborators WebsocketManager.initialize can pass on
DbKinds == {"firebase", "adapter", "mysql"}
\* elapsed times above 2H are indistinguishable to the heartbeat test
MaxElapsed == 2 * heartbeatInterval + 1

VARIABLES
    maxConnections,   \* this.config.maxConnections
    enableAuthentication, \* this.config.enableAuthentication
    requiredFields,   \* this.config.requiredFields
    wireTap,          \* whether the frames handed to ws.send are recorded
    counting,         \* whether clientData.dataReceived is recorded
    dbKind,           \* which storage collaborator this.db is
    isRunning,        \* this.isRunning: the server is listening
    manager,          \* the WebsocketManager that owns the handler
    dbType,           \* DatabaseAdapter: this.config.type
    initialized,      \* DatabaseAdapter: this.initialized
    databases,        \* DatabaseAdapter: keys of this.databases
    primaryDb,        \* DatabaseAdapter: backend this.primaryDb refers to
    secondaryDb,      \* DatabaseAdapter: backend this.secondaryDb refers to
    opened,           \* connections opened on each backend since the last close()
    adapterOps,       \* DatabaseAdapter: the calls of its async operations
    subscriptions,    \* DatabaseAdapter: keys of this.subscriptions
    subscriptionCount, \* number of subscriptions subscribe() has registered
    cancelled,        \* calls of the backend's cancel function, per subscription
    returned,         \* value the last unsubscribe(id) returned
    closing,          \* DatabaseAdapter: close() is between its two halves
    conn,             \* the client made by createRealtimeConnection
    clients,          \* this.clients: identities of the registered sessions
    connectionCount,  \* this.connectionCount
    readyState,       \* ws.readyState of each connection
    closeReason,      \* reason of the close of each connection
    rooms,            \* this.rooms: roomId -> set of member identities
    roomFilters,      \* filters member of the rooms db_subscribe created
    dbSubscriptions,  \* this.dbSubscriptions: roomId -> stored handle
    feeds,            \* change feeds of the storage collaborator
    heartbeatTimers,  \* sessions whose setInterval timer is scheduled
    due,              \* scheduled timers whose interval has elapsed
    sinceLive,        \* now - clientData.lastHeartbeat, saturating
    disconnected,     \* 'websocket-client-disconnected' notifications sent
    listening,        \* connections with 'message'/'close'/'pong' listeners
    isAuthenticated,  \* clientData.isAuthenticated of each connection
    authTimers,       \* connections with a pending close-after-failed-auth timer
    pending,          \* storage calls awaited by a handler: bag of calls
    out,              \* frames sent by the last step (recorded when tapped)
    dataReceived,     \* clientData.dataReceived of each connection, modulo 2
    sentCount         \* value returned by the last broadcast call

vars == <<maxConnections, enableAuthentication, requiredFields, wireTap,
          counting, dataReceived, dbKind, isRunning, manager, dbType,
          initialized, databases, primaryDb, secondaryDb, opened, adapterOps,
          subscriptions, subscriptionCount, cancelled, returned, closing, conn,
          clients,
          roomFilters,
          connectionCount, readyState, closeReason, rooms, dbSubscriptions,
          feeds, heartbeatTimers, due, sinceLive, disconnected, listening,
          isAuthenticated, authTimers, pending, out, sentCount>>

\* the configuration, fixed at construction
ConfigVars == <<maxConnections, enableAuthentication, requiredFields, wireTap,
               counting, dbKind>>

\* the state of the DatabaseAdapter
AdapterVars == <<dbType, initialized, databases, primaryDb, secondaryDb,
                 opened, adapterOps, subscriptions, subscriptionCount,
                 cancelled, returned, closing>>

\* ------------------------------------------------------------ Map helpers
EmptyMap == [k \in {} |-> {}]
MapHas(m, k) == k \in DOMAIN m
MapSet(m, k, v) == [x \in (DOMAIN m) \cup {k} |-> IF x = k THEN v ELSE m[x]]
MapDelete(m, k) == [x \in (DOMAIN m) \ {k} |-> m[x]]

\* members of a room, empty when the room is not in the registry
MembersOf(r) == IF MapHas(rooms, r) THEN rooms[r] ELSE {}

\* ----------------------------------------------------------------- frames
\* a frame on the wire: recipient, message type, the part of the body that
\* tells frames of one type apart, and the table or room it is about
Frame(to, type, detail, about) ==
    [to |-> to, type |-> type, detail |-> detail, about |-> about]

\* variant of sendToClient that sends whatever the state of the socket
sendToClientAnyState(s, type, detail, about) == {Frame(s, type, detail, about)}

\* _sendToClient(ws, message): the frame is sent only on an open socket
sendToClient(s, type, detail, about) ==
    IF readyState[s] = "OPEN" THEN {Frame(s, type, detail, about)} ELSE {}

\* a message that names no table
NoTable == ""

\* filters || {}: the filters of a db_subscribe message that carries none
NoFilters == "{}"
\* the filters a db_subscribe message can carry
Filters == {NoFilters, "{zone: 'a'}"}

\* the message counter is recorded modulo CountModulus, so that every
\* increment changes it
CountModulus == 2

\* the frames a step that handles no message hands to ws.send, recorded when
\* the wire is tapped
Send(frames) ==
    /\ out' = IF wireTap THEN frames ELSE {}
    /\ dataReceived' = dataReceived

\* the frames the handler of a decoded message of session s hands to ws.send;
\* _handleClientMessage has counted the message (clientData.dataReceived++)
\* before it dispatched it
Reply(s, frames) ==
    /\ out' = IF wireTap THEN frames ELSE {}
    /\ dataReceived' = IF counting
                       THEN [dataReceived EXCEPT ![s] = (@ + 1) % CountModulus]
                       ELSE dataReceived

\* storage calls and broadcast results no session or room handler touches
CallVars == <<pending, sentCount>>

\* _checkAuthAndSend: false, with an error frame, for a session that has to
\* authenticate first
checkAuthAndSend(s) == ~(enableAuthentication /\ ~isAuthenticated[s])

\* the frame _checkAuthAndSend sends when it returns false
AuthRequired(s) == sendToClient(s, "error", "Authentication required", "")

\* 'message' and 'pong' events are emitted to the listeners until the socket
\* is closed
Receiving(s) == s \in listening /\ readyState[s] \in {"OPEN", "CLOSING"}

\* a WebsocketManager just constructed: websocketHandler is null and no
\* start of the server is scheduled; stopped records that its stop() has
\* completed on a handler
NoManager == [handler |-> FALSE, startTimer |-> FALSE, stopped |-> FALSE]

\* the backends of a DatabaseAdapter
Backends == {"mysql", "firebase"}
\* process.env.DB_TYPE || 'mysql'
DbTypes == {"mysql", "firestore", "hybrid"}
\* this.primaryDb = null
NoDb == "null"

\* number of calls of the adapter's async operations a run follows
MaxOps == 2
Ops == 1..MaxOps
\* an operation that has not been called
NoOp == [kind |-> "none", pc |-> "idle", result |-> "none", sync |-> "none",
         from |-> NoDb, failed |-> NoDb]

\* number of subscriptions a run registers
MaxSubscriptions == 2
SubscriptionIds == 1..MaxSubscriptions

\* state of a DatabaseAdapter just constructed, whatever its type
AdapterConstructed ==
    /\ initialized = FALSE
    /\ databases = {}
    /\ primaryDb = NoDb
    /\ secondaryDb = NoDb
    /\ opened = [b \in Backends |-> 0]
    /\ adapterOps = [o \in Ops |-> NoOp]
    /\ subscriptions = {}
    /\ subscriptionCount = 0
    /\ cancelled = [i \in SubscriptionIds |-> 0]
    /\ returned = "none"
    /\ closing = FALSE

\* number of connection attempts of one client a run follows
MaxAttempts == 2
\* number of calls of createRealtimeConnection a run follows
MaxClients == 2
Clients == 1..MaxClients

\* createRealtimeConnection has not been called: ws and reconnectTimer are
\* null; closed records that the caller has invoked close(), attempts counts
\* the calls of connect()
NoConnection ==
    [ws |-> "NONE", reconnectTimer |-> FALSE, closed |-> FALSE, attempts |-> 0]
NoClients == [c \in Clients |-> NoConnection]

\* state of a handler just constructed, whatever its configuration, but for
\* isRunning, which start() sets
HandlerConstructed ==
    /\ manager = NoManager
    /\ dbKind \in DbKinds
    /\ listening = {}
    /\ isAuthenticated = [s \in Sessions |-> FALSE]
    /\ authTimers = {}
    /\ pending = EmptyBag
    /\ out = {}
    /\ dataReceived = [s \in Sessions |-> 0]
    /\ sentCount = 0
    /\ clients = {}
    /\ connectionCount = 0
    /\ readyState = [s \in Sessions |-> "NONE"]
    /\ closeReason = [s \in Sessions |-> ""]
    /\ rooms = EmptyMap
    /\ roomFilters = EmptyMap
    /\ dbSubscriptions = EmptyMap
    /\ feeds = <<>>
    /\ heartbeatTimers = {}
    /\ due = {}
    /\ sinceLive = [s \in Sessions |-> 0]
    /\ disconnected = [s \in Sessions |-> 0]

\* a handler just constructed, beside an adapter of the default type that
\* nothing calls and no client made by createRealtimeConnection
Constructed ==
    /\ HandlerConstructed
    /\ dbType = "mysql"
    /\ AdapterConstructed
    /\ conn = NoClients

\* the default configuration, started; the frames are not recorded
Init ==
    /\ maxConnections = DefaultMaxConnections
    /\ enableAuthentication = FALSE
    /\ requiredFields = {}
    /\ wireTap = FALSE
    /\ counting = FALSE
    /\ Constructed
    /\ isRunning = TRUE

\* ------------------------------------------------------------ connection
startClientHeartbeat(s) == heartbeatTimers \cup {s}

\* variant of AtCapacity that lets one connection more in
AtCapacityOffByOne == connectionCount > maxConnections

\* this.connectionCount >= this.config.maxConnections
AtCapacity == connectionCount >= maxConnections

\* a connection over the ceiling is closed with status 1013 and nothing
\* else is done for it; the server emits 'connection' while it is listening
handleNewConnection(s) ==
    /\ isRunning
    /\ readyState[s] = "NONE"
    /\ \A p \in Sessions : p < s => readyState[p] # "NONE"
    /\ IF AtCapacity
       THEN /\ readyState' = [readyState EXCEPT ![s] = "CLOSING"]
            /\ closeReason' = [closeReason EXCEPT ![s] = "Server overloaded"]
            /\ Send({})
            /\ UNCHANGED <<clients, connectionCount, sinceLive,
                           heartbeatTimers, listening, isAuthenticated>>
       ELSE /\ readyState' = [readyState EXCEPT ![s] = "OPEN"]
            /\ isAuthenticated' =
                   [isAuthenticated EXCEPT ![s] = ~enableAuthentication]
            /\ clients' = clients \cup {s}
            /\ connectionCount' = connectionCount + 1
            /\ listening' = listening \cup {s}
            /\ sinceLive' = [sinceLive EXCEPT ![s] = 0]
            /\ heartbeatTimers' = IF enableHeartbeat
                                  THEN startClientHeartbeat(s)
                                  ELSE heartbeatTimers
            /\ Send({Frame(s, "welcome", "", "")})
            /\ UNCHANGED closeReason
    /\ UNCHANGED <<ConfigVars, AdapterVars, conn, manager, isRunning, rooms, roomFilters, dbSubscriptions, feeds, due,
                   disconnected, authTimers, CallVars>>

\* -------------------------------------------------------------- lifecycle
\* the state of the handler but for isRunning and the frames of the step
ServedVars == <<ConfigVars, AdapterVars, conn, clients, connectionCount, readyState, closeReason,
                rooms, roomFilters, dbSubscriptions, feeds, heartbeatTimers,
                due, sinceLive, disconnected, listening, isAuthenticated,
                authTimers, pending, sentCount>>

\* start() or stop() returning at its first test
Returns ==
    /\ Send({})
    /\ UNCHANGED <<isRunning, ServedVars>>

\* start() on a handler that is not running: the server is created
Starts ==
    /\ isRunning' = TRUE
    /\ Send({})
    /\ UNCHANGED ServedVars

\* start(): a handler that is already running only logs a warning
start ==
    /\ ~isRunning
    /\ Starts
    /\ UNCHANGED manager

\* stop() on a running handler: closes the open socket of every registered
\* session with status 1000, clears the session registry, closes the server
\* and zeroes the connection count; the close events of the sockets follow
\* later
Stops ==
    /\ readyState' = [s \in Sessions |->
                         IF s \in clients /\ readyState[s] = "OPEN"
                         THEN "CLOSING" ELSE readyState[s]]
    /\ closeReason' = [s \in Sessions |->
                          IF s \in clients /\ readyState[s] = "OPEN"
                          THEN "Server shutdown" ELSE closeReason[s]]
    /\ clients' = {}
    /\ isRunning' = FALSE
    /\ connectionCount' = 0
    /\ Send({})
    /\ UNCHANGED <<ConfigVars, AdapterVars, conn, rooms, roomFilters,
                   dbSubscriptions, feeds, heartbeatTimers, due, sinceLive,
                   disconnected, listening, isAuthenticated, authTimers,
                   pending, sentCount>>

\* stop(): a handler that is not running only logs a warning
stop ==
    /\ isRunning
    /\ Stops
    /\ UNCHANGED manager

\* ---------------------------------------------------------------- manager
\* WebsocketManager.initialize(): constructs the handler and schedules its
\* start() after a delay; called once, when the application starts
initialize ==
    /\ ~manager.handler
    /\ manager' = [manager EXCEPT !.handler = TRUE, !.startTimer = TRUE]
    /\ Returns

\* the setTimeout callback of initialize(): await this.websocketHandler.start()
StartTimer ==
    /\ manager.startTimer
    /\ manager' = [manager EXCEPT !.startTimer = FALSE]
    /\ IF isRunning THEN Returns ELSE Starts

\* WebsocketManager.stop(): stops the handler if there is one
managerStop ==
    /\ manager.handler
    /\ manager' = [manager EXCEPT !.stopped = TRUE]
    /\ IF isRunning THEN Stops ELSE Returns

\* ------------------------------------------------------------ disconnect
handleClientDisconnection(s) ==
    /\ clients' = clients \ {s}
    /\ connectionCount' = connectionCount - 1
    /\ disconnected' = [disconnected EXCEPT ![s] = @ + 1]

\* the transport's 'close' event: emitted once, when the socket closes,
\* whether the peer went away or the server called ws.close() before; the
\* teardown is the listener _setupClientEventHandlers attached, if it did.
\* The elapsed time of a closed socket is never read again and is dropped.
CloseEvent(s) ==
    /\ readyState[s] \in {"OPEN", "CLOSING"}
    /\ readyState' = [readyState EXCEPT ![s] = "CLOSED"]
    /\ closeReason' = [closeReason EXCEPT ![s] =
                          IF readyState[s] = "OPEN" THEN "client" ELSE @]
    /\ IF s \in listening
       THEN handleClientDisconnection(s)
       ELSE UNCHANGED <<clients, connectionCount, disconnected>>
    /\ sinceLive' = [sinceLive EXCEPT ![s] = 0]
    /\ Send({})
    /\ UNCHANGED <<ConfigVars, AdapterVars, conn, manager, isRunning, rooms, roomFilters, dbSubscriptions, feeds,
                   heartbeatTimers,
                   due, listening, isAuthenticated, authTimers, CallVars>>

\* ------------------------------------------------------------------ rooms
\* state no room or feed handler touches
TransportVars == <<ConfigVars, AdapterVars, conn, manager, isRunning, clients, connectionCount, readyState,
                   closeReason, heartbeatTimers, due, sinceLive, disconnected,
                   listening>>
SessionVars == <<TransportVars, isAuthenticated, authTimers>>

\* the filters of the room records that are left in the registry rm: a
\* record is deleted with all its members
FiltersLeft(rm) ==
    [r \in (DOMAIN roomFilters) \cap (DOMAIN rm) |-> roomFilters[r]]

\* a room record created by join_room has no filters member
handleJoinRoom(s, r) ==
    /\ Receiving(s)
    /\ LET created == IF MapHas(rooms, r) THEN rooms ELSE MapSet(rooms, r, {})
       IN rooms' = MapSet(created, r, created[r] \cup {s})
    /\ Reply(s, sendToClient(s, "room_joined", "", r))
    /\ UNCHANGED <<SessionVars, roomFilters, dbSubscriptions, feeds, CallVars>>

\* variant of LeaveAndPrune that keeps the emptied room in the registry
LeaveNoPrune(s, r) ==
    MapSet(rooms, r, rooms[r] \ {s})

\* the room registry after clients.delete(id) and the removal of the room
\* when that leaves it empty
LeaveAndPrune(s, r) ==
    LET left == MapSet(rooms, r, rooms[r] \ {s})
    IN IF left[r] = {} THEN MapDelete(left, r) ELSE left

handleLeaveRoom(s, r) ==
    /\ Receiving(s)
    /\ rooms' = IF ~MapHas(rooms, r) THEN rooms ELSE LeaveAndPrune(s, r)
    /\ Reply(s, IF ~MapHas(rooms, r) THEN {}
            ELSE sendToClient(s, "room_left", "", r))
    /\ roomFilters' = FiltersLeft(rooms')
    /\ UNCHANGED <<SessionVars, dbSubscriptions, feeds, CallVars>>

\* ------------------------------------------------------------ change feeds
\* variant of HasSubscribe for which every storage collaborator has a
\* subscribe operation
HasSubscribeAlways == TRUE

\* this.db.subscribe is defined
HasSubscribe == dbKind \in {"firebase", "adapter"}

\* FirebaseDB.subscribe returns the cancel function of the feed it opened
FirebaseSubscribe(f) == [kind |-> "function", feed |-> f]

\* DatabaseAdapter.subscribe returns an object {subscriptionId, unsubscribe}
\* wrapping the feed it opened
AdapterSubscribe(f) == [kind |-> "object", feed |-> f]

\* what this.db.subscribe(table, callback, filters) returns for feed f
SubscribeResult(f) ==
    IF dbKind = "firebase" THEN FirebaseSubscribe(f) ELSE AdapterSubscribe(f)

\* the storage collaborator's feeds after the cancel function of f ran
CancelFeed(f) ==
    [feeds EXCEPT ![f] = [@ EXCEPT !.active = FALSE, !.cancelled = @ + 1]]

\* variant of RoomFiltersAfter in which every db_subscribe stores its filters
\* in the room record
RoomFiltersOverwritten(roomId, filters) == MapSet(roomFilters, roomId, filters)

\* the filters member of the room records after a db_subscribe: the room
\* record is created, with the filters of the message, only when the room
\* is not in the registry
RoomFiltersAfter(roomId, filters) ==
    IF ~MapHas(rooms, roomId) THEN MapSet(roomFilters, roomId, filters)
    ELSE roomFilters

\* variant of handleDatabaseSubscribe that asks the storage collaborator for
\* a change feed at every db_subscribe, whether a handle is stored or not
handleDatabaseSubscribeReopens(s, t, filters) ==
    LET roomId == RoomOf(t)
        created == IF MapHas(rooms, roomId) THEN rooms
                   ELSE MapSet(rooms, roomId, {})
        f == Len(feeds) + 1
    IN /\ Receiving(s)
       /\ IF ~checkAuthAndSend(s)
          THEN /\ Reply(s, AuthRequired(s))
               /\ UNCHANGED <<rooms, roomFilters, dbSubscriptions, feeds>>
          ELSE IF t = NoTable
          THEN /\ Reply(s, sendToClient(s, "db_subscribe_response", "fail", t))
               /\ UNCHANGED <<rooms, roomFilters, dbSubscriptions, feeds>>
          ELSE /\ rooms' = MapSet(created, roomId, created[roomId] \cup {s})
               /\ roomFilters' = RoomFiltersAfter(roomId, filters)
               /\ IF HasSubscribe
                  THEN /\ f <= MaxFeeds
                       /\ feeds' = Append(feeds, [table |-> t, filters |-> filters,
                                                  active |-> TRUE,
                                                  cancelled |-> 0])
                       /\ dbSubscriptions' =
                              MapSet(dbSubscriptions, roomId, SubscribeResult(f))
                  ELSE UNCHANGED <<dbSubscriptions, feeds>>
               /\ Reply(s, sendToClient(s, "db_subscribe_response", "ok", t))
       /\ UNCHANGED <<SessionVars, CallVars>>

handleDatabaseSubscribe(s, t, filters) ==
    LET roomId == RoomOf(t)
        created == IF MapHas(rooms, roomId) THEN rooms
                   ELSE MapSet(rooms, roomId, {})
        f == Len(feeds) + 1
    IN /\ Receiving(s)
       /\ IF ~checkAuthAndSend(s)
          THEN /\ Reply(s, AuthRequired(s))
               /\ UNCHANGED <<rooms, roomFilters, dbSubscriptions, feeds>>
          ELSE IF t = NoTable
          THEN /\ Reply(s, sendToClient(s, "db_subscribe_response", "fail", t))
               /\ UNCHANGED <<rooms, roomFilters, dbSubscriptions, feeds>>
          ELSE /\ rooms' = MapSet(created, roomId, created[roomId] \cup {s})
               /\ roomFilters' = RoomFiltersAfter(roomId, filters)
               /\ IF HasSubscribe /\ ~MapHas(dbSubscriptions, roomId)
                  THEN /\ f <= MaxFeeds
                       /\ feeds' = Append(feeds, [table |-> t, filters |-> filters,
                                                  active |-> TRUE,
                                                  cancelled |-> 0])
                       /\ dbSubscriptions' =
                              MapSet(dbSubscriptions, roomId, SubscribeResult(f))
                  ELSE UNCHANGED <<dbSubscriptions, feeds>>
               /\ Reply(s, sendToClient(s, "db_subscribe_response", "ok", t))
       /\ UNCHANGED <<SessionVars, CallVars>>

\* the frame the catch block of _handleClientMessage sends
InvalidFormat(s) == sendToClient(s, "error", "Invalid JSON format", "")

\* variant of handleDatabaseUnsubscribe that cancels the change feed of the
\* table at every db_unsubscribe, whoever is left in the room
handleDatabaseUnsubscribeCancels(s, t) ==
    LET roomId == RoomOf(t)
        left == MapSet(rooms, roomId, rooms[roomId] \ {s})
        done == sendToClient(s, "db_unsubscribe_response", "ok", t)
    IN /\ Receiving(s)
       /\ IF t = NoTable
          THEN Reply(s, {}) /\ UNCHANGED <<rooms, dbSubscriptions, feeds>>
          ELSE IF ~MapHas(rooms, roomId)
          THEN Reply(s, done) /\ UNCHANGED <<rooms, dbSubscriptions, feeds>>
          ELSE IF ~MapHas(dbSubscriptions, roomId)
          THEN /\ rooms' = IF left[roomId] = {} THEN MapDelete(left, roomId)
                           ELSE left
               /\ Reply(s, done)
               /\ UNCHANGED <<dbSubscriptions, feeds>>
          ELSE IF dbSubscriptions[roomId].kind # "function"
          THEN /\ rooms' = left
               /\ Reply(s, InvalidFormat(s))
               /\ UNCHANGED <<dbSubscriptions, feeds>>
          ELSE /\ feeds' = CancelFeed(dbSubscriptions[roomId].feed)
               /\ dbSubscriptions' = MapDelete(dbSubscriptions, roomId)
               /\ rooms' = IF left[roomId] = {} THEN MapDelete(left, roomId)
                           ELSE left
               /\ Reply(s, done)
       /\ roomFilters' = FiltersLeft(rooms')
       /\ UNCHANGED <<SessionVars, CallVars>>

\* unsubscribe() on the stored handle raises a TypeError when the handle is
\* not a function; the statements after it are then skipped and the catch
\* block of _handleClientMessage answers
handleDatabaseUnsubscribe(s, t) ==
    LET roomId == RoomOf(t)
        left == MapSet(rooms, roomId, rooms[roomId] \ {s})
        done == sendToClient(s, "db_unsubscribe_response", "ok", t)
    IN /\ Receiving(s)
       /\ IF t = NoTable
          THEN Reply(s, {}) /\ UNCHANGED <<rooms, dbSubscriptions, feeds>>
          ELSE IF ~MapHas(rooms, roomId)
          THEN Reply(s, done) /\ UNCHANGED <<rooms, dbSubscriptions, feeds>>
          ELSE IF left[roomId] # {}
          THEN /\ rooms' = left
               /\ Reply(s, done)
               /\ UNCHANGED <<dbSubscriptions, feeds>>
          ELSE IF ~MapHas(dbSubscriptions, roomId)
          THEN /\ rooms' = MapDelete(left, roomId)
               /\ Reply(s, done)
               /\ UNCHANGED <<dbSubscriptions, feeds>>
          ELSE IF dbSubscriptions[roomId].kind # "function"
          THEN /\ rooms' = left
               /\ Reply(s, InvalidFormat(s))
               /\ UNCHANGED <<dbSubscriptions, feeds>>
          ELSE /\ feeds' = CancelFeed(dbSubscriptions[roomId].feed)
               /\ dbSubscriptions' = MapDelete(dbSubscriptions, roomId)
               /\ rooms' = MapDelete(left, roomId)
               /\ Reply(s, done)
       /\ roomFilters' = FiltersLeft(rooms')
       /\ UNCHANGED <<SessionVars, CallVars>>

RoomVars == <<rooms, roomFilters, dbSubscriptions, feeds>>

\* --------------------------------------------------------- authentication
\* variant of handleAuthentication in which a wrong token also clears the
\* authenticated flag
handleAuthenticationRevokes(s, tokenOk) ==
    /\ Receiving(s)
    /\ IF ~enableAuthentication
       THEN /\ Reply(s, sendToClient(s, "auth_response", "ok", ""))
            /\ UNCHANGED <<isAuthenticated, authTimers>>
       ELSE IF tokenOk
       THEN /\ isAuthenticated' = [isAuthenticated EXCEPT ![s] = TRUE]
            /\ Reply(s, sendToClient(s, "auth_response", "ok", ""))
            /\ UNCHANGED authTimers
       ELSE /\ Reply(s, sendToClient(s, "auth_response", "fail", ""))
            /\ authTimers' = authTimers \cup {s}
            /\ isAuthenticated' = [isAuthenticated EXCEPT ![s] = FALSE]
    /\ UNCHANGED <<TransportVars, RoomVars, CallVars>>

\* an auth message; tokenOk: message.token === this.config.authToken.
\* A wrong token schedules the close of the connection one second later.
handleAuthentication(s, tokenOk) ==
    /\ Receiving(s)
    /\ IF ~enableAuthentication
       THEN /\ Reply(s, sendToClient(s, "auth_response", "ok", ""))
            /\ UNCHANGED <<isAuthenticated, authTimers>>
       ELSE IF tokenOk
       THEN /\ isAuthenticated' = [isAuthenticated EXCEPT ![s] = TRUE]
            /\ Reply(s, sendToClient(s, "auth_response", "ok", ""))
            /\ UNCHANGED authTimers
       ELSE /\ Reply(s, sendToClient(s, "auth_response", "fail", ""))
            /\ authTimers' = authTimers \cup {s}
            /\ UNCHANGED isAuthenticated
    /\ UNCHANGED <<TransportVars, RoomVars, CallVars>>

\* the setTimeout callback of a failed authentication
AuthCloseTimer(s) ==
    /\ s \in authTimers
    /\ authTimers' = authTimers \ {s}
    /\ IF readyState[s] = "OPEN"
       THEN /\ readyState' = [readyState EXCEPT ![s] = "CLOSING"]
            /\ closeReason' = [closeReason EXCEPT ![s] = "Authentication failed"]
       ELSE UNCHANGED <<readyState, closeReason>>
    /\ Send({})
    /\ UNCHANGED <<ConfigVars, AdapterVars, conn, manager, isRunning, clients, connectionCount, heartbeatTimers, due,
                   sinceLive, disconnected, listening, isAuthenticated,
                   RoomVars, CallVars>>

\* ------------------------------------------------------ protocol messages
\* a ping message is answered with a pong message
handlePing(s) ==
    /\ Receiving(s)
    /\ Reply(s, sendToClient(s, "pong", "", ""))
    /\ UNCHANGED <<SessionVars, RoomVars, CallVars>>

\* variant of handleUnknownMessage that also closes the connection of the
\* sender
handleUnknownMessageCloses(s, decodable) ==
    /\ Receiving(s)
    /\ IF decodable
       THEN Reply(s, sendToClient(s, "error", "Unknown message type", ""))
       ELSE Send(InvalidFormat(s))
    /\ readyState' = [readyState EXCEPT ![s] = "CLOSING"]
    /\ UNCHANGED <<ConfigVars, AdapterVars, conn, manager, isRunning, clients, connectionCount, closeReason,
                   heartbeatTimers, due, sinceLive, disconnected, listening,
                   isAuthenticated, authTimers, RoomVars, CallVars>>

\* a frame JSON.parse rejects, or a message whose type no case of the switch
\* names
handleUnknownMessage(s, decodable) ==
    /\ Receiving(s)
    /\ IF decodable
       THEN Reply(s, sendToClient(s, "error", "Unknown message type", ""))
       ELSE Send(InvalidFormat(s))
    /\ UNCHANGED <<SessionVars, RoomVars, CallVars>>

\* -------------------------------------------------------------- broadcast
\* variant of RoomRecipients that sends to every registered member without
\* looking at the state of its socket
RoomRecipientsAnyState(r) ==
    IF ~enableRoomBroadcast \/ ~MapHas(rooms, r) THEN {}
    ELSE {m \in rooms[r] : m \in clients}

\* the sockets broadcastToRoom finds for the members of room r: the members
\* whose identity is in the session registry and whose socket is open
RoomRecipients(r) ==
    IF ~enableRoomBroadcast \/ ~MapHas(rooms, r) THEN {}
    ELSE {m \in rooms[r] : m \in clients /\ readyState[m] = "OPEN"}

\* variant of AllRecipients that leaves out the sessions that are in no room
AllRecipientsInRooms ==
    {m \in clients : readyState[m] = "OPEN" /\ \E r \in DOMAIN rooms : m \in rooms[r]}

\* the sockets broadcastToAll sends to
AllRecipients == {m \in clients : readyState[m] = "OPEN"}

\* variant of Delivered in which the first failing send ends the loop:
\* only the recipients before it (in identity order) are sent to
DeliveredUntilFailure(recipients, failing) ==
    {m \in recipients : \A x \in recipients \cap failing : m < x}

\* the recipients whose ws.send did not throw; a throw is caught inside the
\* loop and the loop goes on
Delivered(recipients, failing) == recipients \ failing

\* the frames of one broadcast
BroadcastFrames(recipients, type, detail, about) ==
    {Frame(m, type, detail, about) : m \in recipients}

\* broadcastToRoom(roomId, message) called by the host; failing: the sockets
\* whose ws.send throws
broadcastToRoom(r, failing) ==
    LET sent == Delivered(RoomRecipients(r), failing)
    IN /\ Send(BroadcastFrames(sent, "broadcast", "room", r))
       /\ sentCount' = Cardinality(sent)
       /\ UNCHANGED <<SessionVars, RoomVars, pending>>

\* broadcastToAll(message) called by the host
broadcastToAll(failing) ==
    LET sent == Delivered(AllRecipients, failing)
    IN /\ Send(BroadcastFrames(sent, "broadcast", "all", ""))
       /\ sentCount' = Cardinality(sent)
       /\ UNCHANGED <<SessionVars, RoomVars, pending>>

\* ---------------------------------------------------------- storage calls
\* a storage call a handler awaits: the message type that made it, the
\* session that sent the message and the table
Call(op, s, t) == [op |-> op, s |-> s, t |-> t]

\* the handler calls the storage collaborator and suspends at the await
Await(op, s, t) ==
    /\ BagCardinality(pending) < MaxPending
    /\ pending' = pending (+) SetToBag({Call(op, s, t)})

\* values of the data member of a sensor_data message: a mapping of field
\* names to values ("null" stands for null), an array, a string, or nothing
FieldValues == {"21", "", " ", "null"}
Mappings == UNION {[F -> FieldValues] : F \in SUBSET FieldNames}
Payloads ==
    {[shape |-> "mapping", fields |-> m] : m \in Mappings}
    \cup {[shape |-> k, fields |-> <<>>] : k \in {"array", "string", "none"}}

\* message.data || message.payload || message: without a data member the
\* message itself, which carries no field but its type, is the payload
sensorDataOf(data) ==
    IF data.shape = "none" THEN [shape |-> "mapping", fields |-> <<>>]
    ELSE data

\* String(v).trim()
Trim(v) == IF v = " " THEN "" ELSE v

\* _validateSensorData: typeof data is 'object' for mappings and arrays
validateSensorData(data) ==
    /\ data.shape \in {"mapping", "array"}
    /\ \A field \in requiredFields :
          /\ field \in DOMAIN data.fields
          /\ data.fields[field] # "null"
          /\ Trim(data.fields[field]) # ""

\* a sensor_data message; the write to config.dbTableName is awaited in
\* _saveToDatabase
handleSensorData(s, data) ==
    /\ Receiving(s)
    /\ IF enableAuthentication /\ ~isAuthenticated[s]
       THEN Reply(s, AuthRequired(s)) /\ UNCHANGED pending
       ELSE IF enableDataValidation /\ ~validateSensorData(sensorDataOf(data))
       THEN /\ Reply(s, sendToClient(s, "data_response", "fail", ""))
            /\ UNCHANGED pending
       ELSE Await("sensor_data", s, dbTableName) /\ Reply(s, {})
    /\ UNCHANGED <<SessionVars, RoomVars, sentCount>>

\* the part of a db_create, db_read, db_update or db_delete handler before
\* its await; complete: the message has the members the handler asks for
DatabaseRequest(op, s, t, complete) ==
    /\ Receiving(s)
    /\ IF ~checkAuthAndSend(s)
       THEN Reply(s, AuthRequired(s)) /\ UNCHANGED pending
       ELSE IF t = NoTable \/ ~complete
       THEN /\ Reply(s, sendToClient(s, op \o "_response", "fail", t))
            /\ UNCHANGED pending
       ELSE Await(op, s, t) /\ Reply(s, {})
    /\ UNCHANGED <<SessionVars, RoomVars, sentCount>>

\* !table || !data
handleDatabaseCreate(s, t, hasData) == DatabaseRequest("db_create", s, t, hasData)

\* !table
handleDatabaseRead(s, t) == DatabaseRequest("db_read", s, t, TRUE)

\* !table || !data
handleDatabaseUpdate(s, t, hasData) == DatabaseRequest("db_update", s, t, hasData)

\* !table
handleDatabaseDelete(s, t) == DatabaseRequest("db_delete", s, t, TRUE)

\* variant of ResponseTo that sends the response on the socket of every
\* open session
ResponseToEveryone(call, ok) ==
    {Frame(m,
           IF call.op = "sensor_data" THEN "data_response"
           ELSE call.op \o "_response",
           IF ok THEN "ok" ELSE "fail",
           IF call.op = "sensor_data" THEN "" ELSE call.t) :
       m \in {x \in clients : readyState[x] = "OPEN"}}

\* the response a handler sends to the session that made the call
ResponseTo(call, ok) ==
    sendToClient(call.s,
                 IF call.op = "sensor_data" THEN "data_response"
                 ELSE call.op \o "_response",
                 IF ok THEN "ok" ELSE "fail",
                 IF call.op = "sensor_data" THEN "" ELSE call.t)

\* action member of the db_change message of a handler
ChangeAction(op) ==
    CASE op = "db_create" -> "create"
      [] op = "db_update" -> "update"
      [] op = "db_delete" -> "delete"

\* variant of ChangeBroadcast that leaves out the session that made the call
ChangeBroadcastToOthers(call) ==
    IF call.op \in {"db_create", "db_update", "db_delete"} /\ enableDatabaseSync
    THEN BroadcastFrames(RoomRecipients(RoomOf(call.t)) \ {call.s}, "db_change",
                         ChangeAction(call.op), call.t)
    ELSE {}

\* the db_change broadcast of db_create, db_update and db_delete to the
\* room of the table; _saveToDatabase and db_read broadcast nothing
ChangeBroadcast(call) ==
    IF call.op \in {"db_create", "db_update", "db_delete"} /\ enableDatabaseSync
    THEN BroadcastFrames(RoomRecipients(RoomOf(call.t)), "db_change",
                         ChangeAction(call.op), call.t)
    ELSE {}

\* variant of SettleFrames that broadcasts the change whether the storage
\* call succeeded or not
SettleFramesAlwaysBroadcast(call, ok) ==
    ResponseTo(call, ok) \cup ChangeBroadcast(call)

\* the frames a handler sends after its await: the response, and after a
\* successful call the change broadcast; the catch block sends the failure
\* response only
SettleFrames(call, ok) ==
    IF ok THEN ResponseTo(call, ok) \cup ChangeBroadcast(call)
    ELSE ResponseTo(call, ok)

\* the storage call resolves (ok) or rejects, and the handler that awaited
\* it runs to its end
StorageSettles(call, ok) ==
    /\ BagIn(call, pending)
    /\ pending' = pending (-) SetToBag({call})
    /\ Send(SettleFrames(call, ok))
    /\ UNCHANGED <<SessionVars, RoomVars, sentCount>>

\* the callback handed to this.db.subscribe: the change feed f reports
\* the changes its filters select and they are broadcast to the room of the
\* table
FeedChange(f) ==
    /\ f \in DOMAIN feeds
    /\ feeds[f].active
    /\ Send(BroadcastFrames(RoomRecipients(RoomOf(feeds[f].table)),
                            "db_realtime", feeds[f].filters, feeds[f].table))
    /\ UNCHANGED <<SessionVars, RoomVars, CallVars>>

\* -------------------------------------------------------------- heartbeat

\* kinds of liveness signal: a pong frame (ws.on('pong')) and an inbound
\* {type: 'heartbeat'} message (_handleHeartbeat)
LivenessSignals == {"pong", "heartbeat"}

\* clientData.lastHeartbeat = new Date(), on either signal
handleHeartbeat(s, signal) ==
    /\ Receiving(s)
    /\ signal \in LivenessSignals
    /\ sinceLive' = [sinceLive EXCEPT ![s] = 0]
    /\ IF signal = "heartbeat"
       THEN Reply(s, sendToClient(s, "heartbeat_response", "", ""))
       ELSE Send({})
    /\ UNCHANGED <<ConfigVars, AdapterVars, conn, manager, isRunning, clients, connectionCount, readyState,
                   closeReason, heartbeatTimers, due, disconnected, RoomVars,
                   listening, isAuthenticated, authTimers, CallVars>>

\* variant of Probe that sends the probe at every tick
ProbeAtEveryTick(s, probing) == {Frame(s, "ping", "", "")}

\* ws.ping() in the interval callback: the liveness probe sent to a session
\* whose socket is open and that has not timed out
Probe(s, probing) == IF probing THEN {Frame(s, "ping", "", "")} ELSE {}

\* variant of TimedOut that declares the peer dead at exactly 2H
TimedOutAtTwice(s) == sinceLive[s] >= heartbeatInterval * 2

\* timeSinceLastHeartbeat > this.config.heartbeatInterval * 2
TimedOut(s) == sinceLive[s] > heartbeatInterval * 2

\* variant of HeartbeatTick whose timeout branch also runs the teardown
\* itself instead of leaving it to the transport's close event
HeartbeatTickTearsDown(s) ==
    /\ s \in due
    /\ due' = due \ {s}
    /\ IF readyState[s] = "OPEN"
       THEN IF TimedOut(s)
            THEN /\ readyState' = [readyState EXCEPT ![s] = "CLOSING"]
                 /\ closeReason' = [closeReason EXCEPT ![s] = "Heartbeat timeout"]
                 /\ heartbeatTimers' = heartbeatTimers \ {s}
                 /\ handleClientDisconnection(s)
            ELSE UNCHANGED <<readyState, closeReason, heartbeatTimers,
                             clients, connectionCount, disconnected>>
       ELSE /\ heartbeatTimers' = heartbeatTimers \ {s}
            /\ UNCHANGED <<readyState, closeReason, clients, connectionCount,
                           disconnected>>
    /\ Send(Probe(s, readyState[s] = "OPEN" /\ ~TimedOut(s)))
    /\ UNCHANGED <<ConfigVars, AdapterVars, conn, manager, isRunning, sinceLive, RoomVars, listening,
                   isAuthenticated, authTimers, CallVars>>

\* variant of HeartbeatTick without the cleanup branch for a socket that is
\* no longer open
HeartbeatTickNoCleanup(s) ==
    /\ s \in due
    /\ due' = due \ {s}
    /\ IF readyState[s] = "OPEN" /\ TimedOut(s)
       THEN /\ readyState' = [readyState EXCEPT ![s] = "CLOSING"]
            /\ closeReason' = [closeReason EXCEPT ![s] = "Heartbeat timeout"]
            /\ heartbeatTimers' = heartbeatTimers \ {s}
       ELSE UNCHANGED <<readyState, closeReason, heartbeatTimers>>
    /\ Send(Probe(s, readyState[s] = "OPEN" /\ ~TimedOut(s)))
    /\ UNCHANGED <<ConfigVars, AdapterVars, conn, manager, isRunning, clients, connectionCount, sinceLive,
                   disconnected, RoomVars, listening, isAuthenticated,
                   authTimers, CallVars>>

\* one firing of the setInterval callback of session s
HeartbeatTick(s) ==
    /\ s \in due
    /\ due' = due \ {s}
    /\ IF readyState[s] = "OPEN"
       THEN IF TimedOut(s)
            THEN /\ readyState' = [readyState EXCEPT ![s] = "CLOSING"]
                 /\ closeReason' = [closeReason EXCEPT ![s] = "Heartbeat timeout"]
                 /\ heartbeatTimers' = heartbeatTimers \ {s}
            ELSE UNCHANGED <<readyState, closeReason, heartbeatTimers>>
       ELSE /\ heartbeatTimers' = heartbeatTimers \ {s}
            /\ UNCHANGED <<readyState, closeReason>>
    /\ Send(Probe(s, readyState[s] = "OPEN" /\ ~TimedOut(s)))
    /\ UNCHANGED <<ConfigVars, AdapterVars, conn, manager, isRunning, clients, connectionCount, sinceLive,
                   disconnected, RoomVars, listening, isAuthenticated,
                   authTimers, CallVars>>

\* one heartbeat interval passes; every scheduled timer has fired before the
\* next interval ends. Elapsed time is only read for sockets not yet closed.
Advance ==
    /\ due = {}
    /\ due' = heartbeatTimers
    /\ sinceLive' = [s \in Sessions |->
                       IF Receiving(s) /\ sinceLive[s] + heartbeatInterval <= MaxElapsed
                       THEN sinceLive[s] + heartbeatInterval
                       ELSE IF Receiving(s) THEN MaxElapsed ELSE sinceLive[s]]
    /\ Send({})
    /\ UNCHANGED <<ConfigVars, AdapterVars, conn, manager, isRunning, clients, connectionCount, readyState,
                   closeReason, heartbeatTimers, disconnected, RoomVars,
                   listening, isAuthenticated, authTimers, CallVars>>

\* the handler with its change feeds; join_room and leave_room messages name
\* the resource rooms
Next ==
    \/ \E s \in Sessions : handleNewConnection(s)
    \/ \E s \in Sessions : CloseEvent(s)
    \/ \E s \in Sessions, r \in ResourceRooms : handleJoinRoom(s, r)
    \/ \E s \in Sessions, r \in ResourceRooms : handleLeaveRoom(s, r)
    \/ \E s \in Sessions, t \in Tables : handleDatabaseSubscribe(s, t, NoFilters)
    \/ \E s \in Sessions, t \in Tables : handleDatabaseUnsubscribe(s, t)
    \/ \E s \in Sessions, signal \in LivenessSignals : handleHeartbeat(s, signal)
    \/ \E s \in Sessions : HeartbeatTick(s)
    \/ Advance

Spec == Init /\ [][Next]_vars

\* the handler driven by connects, disconnects, heartbeats and the generic
\* room messages join_room / leave_room only (no db_subscribe / db_unsubscribe),
\* naming any room
NextRooms ==
    \/ \E s \in Sessions : handleNewConnection(s)
    \/ \E s \in Sessions : CloseEvent(s)
    \/ \E s \in Sessions, r \in RoomNames : handleJoinRoom(s, r)
    \/ \E s \in Sessions, r \in RoomNames : handleLeaveRoom(s, r)
    \/ \E s \in Sessions, signal \in LivenessSignals : handleHeartbeat(s, signal)
    \/ \E s \in Sessions : HeartbeatTick(s)
    \/ Advance

SpecRooms == Init /\ [][NextRooms]_vars

\* a handler configured with a connection ceiling the run can reach; the
\* frames are recorded
InitCapacity ==
    /\ maxConnections \in 1..MaxSessions
    /\ enableAuthentication = FALSE
    /\ requiredFields = {}
    /\ wireTap = TRUE
    /\ counting = FALSE
    /\ Constructed
    /\ isRunning = TRUE

\* connections, disconnections and the heartbeat
NextCapacity ==
    \/ \E s \in Sessions : handleNewConnection(s)
    \/ \E s \in Sessions : CloseEvent(s)
    \/ \E s \in Sessions, signal \in LivenessSignals : handleHeartbeat(s, signal)
    \/ \E s \in Sessions : HeartbeatTick(s)
    \/ Advance

SpecCapacity == InitCapacity /\ [][NextCapacity]_vars

\* a handler just constructed, not started yet, with a connection ceiling
\* the run can reach
InitLifecycle ==
    /\ maxConnections \in 1..MaxSessions
    /\ enableAuthentication = FALSE
    /\ requiredFields = {}
    /\ wireTap = FALSE
    /\ counting = FALSE
    /\ Constructed /\ isRunning = FALSE

\* start and stop of the server, connections accepted and rejected, and the
\* close events of the sockets, whenever they are delivered
NextLifecycle ==
    \/ start
    \/ stop
    \/ \E s \in Sessions : handleNewConnection(s)
    \/ \E s \in Sessions : CloseEvent(s)

SpecLifecycle == InitLifecycle /\ [][NextLifecycle]_vars

\* a handler just constructed in the default configuration, not started
\* yet, with any storage collaborator
InitShutdown ==
    /\ maxConnections = DefaultMaxConnections
    /\ enableAuthentication = FALSE
    /\ requiredFields = {}
    /\ wireTap = FALSE
    /\ counting = FALSE
    /\ Constructed /\ isRunning = FALSE

\* start and stop of a server whose sessions join rooms and subscribe to
\* tables
NextShutdown ==
    \/ start
    \/ stop
    \/ \E s \in Sessions : handleNewConnection(s)
    \/ \E s \in Sessions : CloseEvent(s)
    \/ \E s \in Sessions, r \in RoomNames : handleJoinRoom(s, r)
    \/ \E s \in Sessions, t \in Tables : handleDatabaseSubscribe(s, t, NoFilters)

SpecShutdown == InitShutdown /\ [][NextShutdown]_vars

\* a WebsocketManager just constructed, with the configuration of
\* InitLifecycle for the handler it will construct
InitManager == InitLifecycle

\* initialize() and stop() of the manager, the delayed start of the server,
\* and the connections and close events of the server
NextManager ==
    \/ initialize
    \/ StartTimer
    \/ managerStop
    \/ \E s \in Sessions : handleNewConnection(s)
    \/ \E s \in Sessions : CloseEvent(s)

SpecManager == InitManager /\ [][NextManager]_vars

\* a handler with database sync, in the default configuration; the frames
\* are recorded
InitSync ==
    /\ maxConnections = DefaultMaxConnections
    /\ enableAuthentication = FALSE
    /\ requiredFields = {}
    /\ wireTap = TRUE
    /\ counting = FALSE
    /\ Constructed
    /\ isRunning = TRUE

\* the storage calls of the message types in ops that can be in flight
CallsOf(ops) == {Call(op, s, t) : op \in ops, s \in Sessions, t \in Tables}

\* connections, subscriptions with their change feeds, and the writes
\* sensor_data and db_update with their storage calls
NextSync ==
    \/ \E s \in Sessions : handleNewConnection(s)
    \/ \E s \in Sessions : CloseEvent(s)
    \/ \E s \in Sessions, t \in Tables : handleDatabaseSubscribe(s, t, NoFilters)
    \/ \E s \in Sessions, t \in Tables : handleDatabaseUnsubscribe(s, t)
    \/ \E f \in 1..MaxFeeds : FeedChange(f)
    \/ \E s \in Sessions, data \in Payloads : handleSensorData(s, data)
    \/ \E s \in Sessions, t \in Tables \cup {NoTable}, hasData \in BOOLEAN :
          handleDatabaseUpdate(s, t, hasData)
    \/ \E call \in CallsOf({"sensor_data", "db_update"}), ok \in BOOLEAN :
          StorageSettles(call, ok)

SpecSync == InitSync /\ [][NextSync]_vars

\* a handler with data validation and any list of required fields; the
\* frames are recorded
InitValidation ==
    /\ maxConnections = DefaultMaxConnections
    /\ enableAuthentication = FALSE
    /\ requiredFields \in SUBSET FieldNames
    /\ wireTap = TRUE
    /\ counting = FALSE
    /\ Constructed
    /\ isRunning = TRUE

\* connections, membership of the resource rooms, and sensor_data writes
\* with their storage calls
NextValidation ==
    \/ \E s \in Sessions : handleNewConnection(s)
    \/ \E s \in Sessions : CloseEvent(s)
    \/ \E s \in Sessions, r \in ResourceRooms : handleJoinRoom(s, r)
    \/ \E s \in Sessions, r \in ResourceRooms : handleLeaveRoom(s, r)
    \/ \E s \in Sessions, data \in Payloads : handleSensorData(s, data)
    \/ \E call \in CallsOf({"sensor_data"}), ok \in BOOLEAN :
          StorageSettles(call, ok)

SpecValidation == InitValidation /\ [][NextValidation]_vars

\* message types of the data plane
DataPlane == {"sensor_data", "db_create", "db_read", "db_update", "db_delete",
              "db_subscribe", "db_unsubscribe", "join_room", "leave_room"}

\* the handling of one data-plane message of type kind from session s
DataPlaneMessage(s, kind) ==
    CASE kind = "sensor_data" -> \E data \in Payloads : handleSensorData(s, data)
      [] kind = "db_create" ->
            \E t \in Tables, hasData \in BOOLEAN : handleDatabaseCreate(s, t, hasData)
      [] kind = "db_read" -> \E t \in Tables : handleDatabaseRead(s, t)
      [] kind = "db_update" ->
            \E t \in Tables, hasData \in BOOLEAN : handleDatabaseUpdate(s, t, hasData)
      [] kind = "db_delete" -> \E t \in Tables : handleDatabaseDelete(s, t)
      [] kind = "db_subscribe" -> \E t \in Tables : handleDatabaseSubscribe(s, t, NoFilters)
      [] kind = "db_unsubscribe" -> \E t \in Tables : handleDatabaseUnsubscribe(s, t)
      [] kind = "join_room" -> \E r \in ResourceRooms : handleJoinRoom(s, r)
      [] kind = "leave_room" -> \E r \in ResourceRooms : handleLeaveRoom(s, r)

\* the storage calls that can be in flight
Calls == CallsOf(DataPlane)

\* message types that make a storage call
StorageOps == {"sensor_data", "db_create", "db_read", "db_update", "db_delete"}

\* a handler in the default configuration constructed with a store without
\* subscribe, for which subscriptions are room membership only
InitStorage == InitSync /\ dbKind = "mysql"

\* connections, subscriptions, and every message type that makes a storage
\* call, with the calls settling in any order
NextStorage ==
    \/ \E s \in Sessions : handleNewConnection(s)
    \/ \E s \in Sessions : CloseEvent(s)
    \/ \E s \in Sessions, t \in Tables : handleDatabaseSubscribe(s, t, NoFilters)
    \/ \E s \in Sessions, data \in Payloads : handleSensorData(s, data)
    \/ \E s \in Sessions, t \in Tables, hasData \in BOOLEAN :
          handleDatabaseCreate(s, t, hasData)
    \/ \E s \in Sessions, t \in Tables \cup {NoTable} : handleDatabaseRead(s, t)
    \/ \E s \in Sessions, t \in Tables, hasData \in BOOLEAN :
          handleDatabaseUpdate(s, t, hasData)
    \/ \E s \in Sessions, t \in Tables \cup {NoTable} : handleDatabaseDelete(s, t)
    \/ \E call \in CallsOf(StorageOps), ok \in BOOLEAN : StorageSettles(call, ok)

SpecStorage == InitStorage /\ [][NextStorage]_vars

\* a handler that requires authentication; the frames are recorded
InitAuth ==
    /\ maxConnections = DefaultMaxConnections
    /\ enableAuthentication = TRUE
    /\ requiredFields = {}
    /\ wireTap = TRUE
    /\ counting = FALSE
    /\ Constructed
    /\ isRunning = TRUE

\* connections, authentication and the data-plane messages
NextAuth ==
    \/ \E s \in Sessions : handleNewConnection(s)
    \/ \E s \in Sessions : CloseEvent(s)
    \/ \E s \in Sessions, tokenOk \in BOOLEAN : handleAuthentication(s, tokenOk)
    \/ \E s \in Sessions : AuthCloseTimer(s)
    \/ \E s \in Sessions, kind \in DataPlane : DataPlaneMessage(s, kind)
    \/ \E call \in Calls, ok \in BOOLEAN : StorageSettles(call, ok)

SpecAuth == InitAuth /\ [][NextAuth]_vars

\* a handler with or without authentication; the frames are recorded
InitProtocol ==
    /\ maxConnections = DefaultMaxConnections
    /\ enableAuthentication \in BOOLEAN
    /\ requiredFields = {}
    /\ wireTap = TRUE
    /\ counting = FALSE
    /\ Constructed
    /\ isRunning = TRUE

\* connections, the control messages auth, ping and heartbeat, frames the
\* router does not recognize, and subscriptions
NextProtocol ==
    \/ \E s \in Sessions : handleNewConnection(s)
    \/ \E s \in Sessions : CloseEvent(s)
    \/ \E s \in Sessions, tokenOk \in BOOLEAN : handleAuthentication(s, tokenOk)
    \/ \E s \in Sessions : AuthCloseTimer(s)
    \/ \E s \in Sessions : handlePing(s)
    \/ \E s \in Sessions : handleHeartbeat(s, "heartbeat")
    \/ \E s \in Sessions, decodable \in BOOLEAN : handleUnknownMessage(s, decodable)
    \/ \E s \in Sessions, t \in Tables \cup {NoTable} : handleDatabaseSubscribe(s, t, NoFilters)
    \/ \E s \in Sessions, t \in Tables \cup {NoTable} : handleDatabaseUnsubscribe(s, t)

SpecProtocol == InitProtocol /\ [][NextProtocol]_vars

\* connections, and every message that changes the membership of a room:
\* join_room and leave_room for any room, db_subscribe and db_unsubscribe
NextMembership ==
    \/ \E s \in Sessions : handleNewConnection(s)
    \/ \E s \in Sessions : CloseEvent(s)
    \/ \E s \in Sessions, r \in RoomNames : handleJoinRoom(s, r)
    \/ \E s \in Sessions, r \in RoomNames : handleLeaveRoom(s, r)
    \/ \E s \in Sessions, t \in Tables : handleDatabaseSubscribe(s, t, NoFilters)
    \/ \E s \in Sessions, t \in Tables : handleDatabaseUnsubscribe(s, t)

\* the handler in the default configuration with any storage collaborator;
\* the frames are recorded
SpecMembership == InitSync /\ [][NextMembership]_vars

\* connections, db_subscribe messages with any filters, db_unsubscribe, the
\* generic room messages naming the resource rooms, and the change feeds
\* reporting changes
NextSubscriptions ==
    \/ \E s \in Sessions : handleNewConnection(s)
    \/ \E s \in Sessions : CloseEvent(s)
    \/ \E s \in Sessions, t \in Tables, filters \in Filters :
          handleDatabaseSubscribe(s, t, filters)
    \/ \E s \in Sessions, t \in Tables : handleDatabaseUnsubscribe(s, t)
    \/ \E s \in Sessions, r \in ResourceRooms : handleJoinRoom(s, r)
    \/ \E s \in Sessions, r \in ResourceRooms : handleLeaveRoom(s, r)
    \/ \E f \in 1..MaxFeeds : FeedChange(f)

\* the handler in the default configuration with any storage collaborator;
\* the frames are recorded
SpecSubscriptions == InitSync /\ [][NextSubscriptions]_vars

\* a handler with or without authentication, constructed with a store
\* without subscribe; the frames and the message counters are recorded
InitTeardown ==
    /\ maxConnections = DefaultMaxConnections
    /\ enableAuthentication \in BOOLEAN
    /\ requiredFields = {}
    /\ wireTap = TRUE
    /\ counting = TRUE
    /\ Constructed
    /\ isRunning = TRUE
    /\ dbKind = "mysql"

\* everything that can still fire for a session after its teardown: the
\* timer of a failed authentication (wrong tokens only), the heartbeat timer
\* and the result of a storage call it made (made by the sessions of a
\* handler without authentication)
NextTeardown ==
    \/ \E s \in Sessions : handleNewConnection(s)
    \/ \E s \in Sessions : CloseEvent(s)
    \/ \E s \in Sessions : handleAuthentication(s, FALSE)
    \/ \E s \in Sessions : AuthCloseTimer(s)
    \/ \E s \in Sessions : HeartbeatTick(s)
    \/ Advance
    \/ \E s \in Sessions, t \in Tables : handleDatabaseUpdate(s, t, TRUE)
    \/ \E call \in CallsOf({"db_update"}) : StorageSettles(call, TRUE)

SpecTeardown == InitTeardown /\ [][NextTeardown]_vars

\* a handler that requires authentication, constructed with a store
\* without subscribe
InitBroadcast == InitAuth /\ dbKind = "mysql"

\* connections, failed authentications, the generic room messages and the
\* two broadcast calls of the host
NextBroadcast ==
    \/ \E s \in Sessions : handleNewConnection(s)
    \/ \E s \in Sessions : CloseEvent(s)
    \/ \E s \in Sessions : handleAuthentication(s, FALSE)
    \/ \E s \in Sessions : AuthCloseTimer(s)
    \/ \E s \in Sessions, r \in RoomNames : handleJoinRoom(s, r)
    \/ \E s \in Sessions, r \in RoomNames : handleLeaveRoom(s, r)
    \/ \E r \in RoomNames :
          \E failing \in SUBSET RoomRecipients(r) : broadcastToRoom(r, failing)
    \/ \E failing \in SUBSET AllRecipients : broadcastToAll(failing)

SpecBroadcast == InitBroadcast /\ [][NextBroadcast]_vars

\* ======================================================================
\* DatabaseAdapter
\* ======================================================================
\* the state of the WebSocket handler and of its manager, but for the frames
\* of the step
HandlerVars == <<ConfigVars, isRunning, manager, clients, connectionCount,
                 readyState, closeReason, rooms, roomFilters, dbSubscriptions,
                 feeds, heartbeatTimers, due, sinceLive, disconnected,
                 listening, isAuthenticated, authTimers, pending, sentCount>>

\* a step of the adapter touches neither the handler nor the client
AdapterStep ==
    /\ Send({})
    /\ UNCHANGED <<HandlerVars, conn>>

\* the async operations of the adapter: the writes postData, updateData and
\* deleteData, the read getDataByFilters, and initialize() called directly
OpKinds == {"write", "read", "initialize"}

\* the operation after ensureInitialized() has returned: it calls the
\* primary backend; initialize() itself is done
AfterInit(kind, primary) ==
    IF kind = "initialize"
    THEN [NoOp EXCEPT !.kind = kind, !.pc = "done", !.result = "ok"]
    ELSE [NoOp EXCEPT !.kind = kind, !.pc = "primary", !.from = primary]

\* an operation is called: ensureInitialized() runs initialize() unless
\* this.initialized is set; initialize() registers the first backend of the
\* configured type and awaits its connect()
adapterCall(o, kind) ==
    /\ adapterOps[o] = NoOp
    /\ IF initialized
       THEN /\ adapterOps' = [adapterOps EXCEPT ![o] = AfterInit(kind, primaryDb)]
            /\ UNCHANGED databases
       ELSE IF dbType \in {"mysql", "hybrid"}
       THEN /\ databases' = databases \cup {"mysql"}
            /\ adapterOps' = [adapterOps EXCEPT
                                 ![o] = [NoOp EXCEPT !.kind = kind,
                                                     !.pc = "connect_mysql"]]
       ELSE /\ databases' = databases \cup {"firebase"}
            /\ adapterOps' = [adapterOps EXCEPT
                                 ![o] = [NoOp EXCEPT !.kind = kind,
                                                     !.pc = "connect_firebase"]]
    /\ UNCHANGED <<dbType, initialized, primaryDb, secondaryDb, opened,
                   subscriptions, subscriptionCount, cancelled, returned,
                   closing>>
    /\ AdapterStep

\* initialize() throws 'Database initialization failed'
InitFailed(kind) ==
    [NoOp EXCEPT !.kind = kind, !.pc = "done", !.result = "error"]

\* the connect() an initialize() awaits resolves (ok) or rejects, and
\* initialize() goes on to the next backend or finishes
ConnectSettles(o, ok) ==
    LET op == adapterOps[o]
    IN /\ op.pc \in {"connect_mysql", "connect_firebase"}
       /\ IF ~ok
          THEN /\ adapterOps' = [adapterOps EXCEPT ![o] = InitFailed(op.kind)]
               /\ UNCHANGED <<initialized, databases, primaryDb, secondaryDb,
                              opened>>
          ELSE IF op.pc = "connect_mysql"
          THEN /\ opened' = [opened EXCEPT !["mysql"] = @ + 1]
               /\ primaryDb' = "mysql"
               /\ UNCHANGED secondaryDb
               /\ IF dbType = "hybrid"
                  THEN /\ databases' = databases \cup {"firebase"}
                       /\ adapterOps' = [adapterOps EXCEPT
                                            ![o] = [op EXCEPT !.pc = "connect_firebase"]]
                       /\ UNCHANGED initialized
                  ELSE /\ initialized' = TRUE
                       /\ adapterOps' = [adapterOps EXCEPT
                                            ![o] = AfterInit(op.kind, "mysql")]
                       /\ UNCHANGED databases
          ELSE /\ opened' = [opened EXCEPT !["firebase"] = @ + 1]
               /\ primaryDb' = IF primaryDb = NoDb THEN "firebase" ELSE primaryDb
               /\ secondaryDb' = "firebase"
               /\ initialized' = TRUE
               /\ adapterOps' = [adapterOps EXCEPT
                                    ![o] = AfterInit(op.kind, primaryDb')]
               /\ UNCHANGED databases
       /\ UNCHANGED <<dbType, subscriptions, subscriptionCount, cancelled,
                      returned, closing>>
       /\ AdapterStep

\* the call of the primary backend resolves (ok) or rejects. A write that
\* succeeded starts the sync to the secondary backend in hybrid mode, without
\* awaiting it, and returns the primary's result; a read that failed falls
\* back on the secondary backend when there is one
PrimarySettles(o, ok) ==
    LET op == adapterOps[o]
    IN /\ op.pc = "primary"
       /\ adapterOps' = [adapterOps EXCEPT ![o] =
             IF ok
             THEN [op EXCEPT !.pc = "done", !.result = "primary",
                             !.sync = IF /\ op.kind = "write"
                                         /\ secondaryDb # NoDb
                                         /\ dbType = "hybrid"
                                      THEN "pending" ELSE "none"]
             ELSE IF op.kind = "read" /\ secondaryDb # NoDb
             THEN [op EXCEPT !.pc = "fallback", !.failed = op.from,
                             !.from = secondaryDb]
             ELSE [op EXCEPT !.pc = "done", !.result = "error"]]
       /\ UNCHANGED <<dbType, initialized, databases, primaryDb, secondaryDb,
                      opened, subscriptions, subscriptionCount, cancelled,
                      returned, closing>>
       /\ AdapterStep

\* variant of SecondarySettles in which a rejection of the secondary write
\* is raised to the caller of the operation
SecondarySettlesRaises(o, ok) ==
    LET op == adapterOps[o]
    IN /\ op.sync = "pending"
       /\ adapterOps' = [adapterOps EXCEPT
                            ![o] = IF ok THEN [op EXCEPT !.sync = "ok"]
                                   ELSE [op EXCEPT !.sync = "failed",
                                                   !.result = "error"]]
       /\ UNCHANGED <<dbType, initialized, databases, primaryDb, secondaryDb,
                      opened, subscriptions, subscriptionCount, cancelled,
                      returned, closing>>
       /\ AdapterStep

\* the write _syncToSecondary awaits resolves or rejects; a rejection is
\* caught and logged inside _syncToSecondary
SecondarySettles(o, ok) ==
    LET op == adapterOps[o]
    IN /\ op.sync = "pending"
       /\ adapterOps' = [adapterOps EXCEPT
                            ![o] = [op EXCEPT !.sync = IF ok THEN "ok" ELSE "failed"]]
       /\ UNCHANGED <<dbType, initialized, databases, primaryDb, secondaryDb,
                      opened, subscriptions, subscriptionCount, cancelled,
                      returned, closing>>
       /\ AdapterStep

\* the read of the secondary backend resolves or rejects
FallbackSettles(o, ok) ==
    LET op == adapterOps[o]
    IN /\ op.pc = "fallback"
       /\ adapterOps' = [adapterOps EXCEPT
                            ![o] = [op EXCEPT !.pc = "done",
                                              !.result = IF ok THEN "secondary"
                                                         ELSE "error"]]
       /\ UNCHANGED <<dbType, initialized, databases, primaryDb, secondaryDb,
                      opened, subscriptions, subscriptionCount, cancelled,
                      returned, closing>>
       /\ AdapterStep

\* ---------------------------------------------------------- subscriptions
\* subscribe(tableName, callback, filters): with a firebase backend the
\* backend's subscribe is called and its cancel function is registered under
\* a fresh id; without one nothing is registered
subscribe ==
    /\ subscriptionCount < MaxSubscriptions
    /\ IF "firebase" \in databases
       THEN /\ subscriptionCount' = subscriptionCount + 1
            /\ subscriptions' = subscriptions \cup {subscriptionCount + 1}
       ELSE UNCHANGED <<subscriptionCount, subscriptions>>
    /\ UNCHANGED <<dbType, initialized, databases, primaryDb, secondaryDb,
                   opened, adapterOps, cancelled, returned, closing>>
    /\ AdapterStep

\* the ids unsubscribe can be called with: the ids subscribe has returned
\* and ids it has not
SomeIds == SubscriptionIds \cup {0}

\* unsubscribe(subscriptionId), also called by the unsubscribe member of the
\* handle subscribe returned: a registered subscription is cancelled and
\* removed
unsubscribe(id) ==
    /\ id \in SomeIds
    /\ IF id \in subscriptions
       THEN /\ cancelled' = [cancelled EXCEPT ![id] = @ + 1]
            /\ subscriptions' = subscriptions \ {id}
            /\ returned' = "true"
       ELSE /\ returned' = "false"
            /\ UNCHANGED <<cancelled, subscriptions>>
    /\ UNCHANGED <<dbType, initialized, databases, primaryDb, secondaryDb,
                   opened, adapterOps, subscriptionCount, closing>>
    /\ AdapterStep

\* the cancel counts after every registered subscription was cancelled
AllCancelled ==
    [i \in SubscriptionIds |->
        IF i \in subscriptions THEN cancelled[i] + 1 ELSE cancelled[i]]

\* unsubscribeAll(): cancels every registered subscription and clears the
\* registry
unsubscribeAll ==
    /\ subscriptions # {}
    /\ cancelled' = AllCancelled
    /\ subscriptions' = {}
    /\ UNCHANGED <<dbType, initialized, databases, primaryDb, secondaryDb,
                   opened, adapterOps, subscriptionCount, returned, closing>>
    /\ AdapterStep

\* close(), up to its await: unsubscribeAll() and the close() of every
\* registered backend
close ==
    /\ ~closing
    /\ cancelled' = AllCancelled
    /\ subscriptions' = {}
    /\ closing' = TRUE
    /\ UNCHANGED <<dbType, initialized, databases, primaryDb, secondaryDb,
                   opened, adapterOps, subscriptionCount, returned>>
    /\ AdapterStep

\* close(), after its await: the backends have closed, the adapter forgets
\* them and is not initialized any more
CloseSettles ==
    /\ closing
    /\ closing' = FALSE
    /\ databases' = {}
    /\ primaryDb' = NoDb
    /\ secondaryDb' = NoDb
    /\ initialized' = FALSE
    /\ opened' = [b \in Backends |-> 0]
    /\ UNCHANGED <<dbType, adapterOps, subscriptions, subscriptionCount,
                   cancelled, returned>>
    /\ AdapterStep

\* an adapter of any type just constructed, beside a handler that nothing
\* calls
InitAdapter ==
    /\ maxConnections = DefaultMaxConnections
    /\ enableAuthentication = FALSE
    /\ requiredFields = {}
    /\ wireTap = FALSE
    /\ counting = FALSE
    /\ HandlerConstructed /\ isRunning = FALSE
    /\ dbKind = "adapter"
    /\ dbType \in DbTypes
    /\ AdapterConstructed
    /\ conn = NoClients

\* operations called on the adapter while others are in flight, and the
\* results of the backends
NextAdapter ==
    \/ \E o \in Ops, kind \in OpKinds : adapterCall(o, kind)
    \/ \E o \in Ops, ok \in BOOLEAN : ConnectSettles(o, ok)
    \/ \E o \in Ops, ok \in BOOLEAN : PrimarySettles(o, ok)
    \/ \E o \in Ops, ok \in BOOLEAN : SecondarySettles(o, ok)
    \/ \E o \in Ops, ok \in BOOLEAN : FallbackSettles(o, ok)

SpecAdapter == InitAdapter /\ [][NextAdapter]_vars

\* an adapter with a firebase backend just constructed
InitFeeds ==
    /\ InitAdapter
    /\ dbType \in {"firestore", "hybrid"}

\* the adapter is initialized, subscriptions are made and cancelled in every
\* way, and the adapter is closed
NextFeeds ==
    \/ \E o \in Ops : adapterCall(o, "initialize")
    \/ \E o \in Ops : ConnectSettles(o, TRUE)
    \/ subscribe
    \/ \E id \in SomeIds : unsubscribe(id)
    \/ unsubscribeAll
    \/ close
    \/ CloseSettles

SpecFeeds == InitFeeds /\ [][NextFeeds]_vars

\* ======================================================================
\* Client: websocket.createRealtimeConnection
\* ======================================================================
\* a step of a client touches neither the handler nor the adapter
ClientStep ==
    /\ Send({})
    /\ UNCHANGED <<HandlerVars, AdapterVars>>

\* connect(): ws = new WebSocket(url)
connect(c) ==
    [conn[c] EXCEPT !.ws = "CONNECTING", !.attempts = @ + 1,
                    !.reconnectTimer = FALSE]

\* createRealtimeConnection(url, options) with autoReconnect left enabled:
\* the first connect()
createRealtimeConnection(c) ==
    /\ conn[c] = NoConnection
    /\ conn' = [conn EXCEPT ![c] = connect(c)]
    /\ ClientStep

\* ws.onopen
SocketOpens(c) ==
    /\ conn[c].ws = "CONNECTING"
    /\ conn' = [conn EXCEPT ![c].ws = "OPEN"]
    /\ ClientStep

\* ws.onclose: the connection attempt failed, the server or the network
\* ended the connection, or the close the caller asked for has finished;
\* wasClean is false for a connection that never opened. An unclean close
\* schedules connect() after reconnectDelay
SocketCloses(c, wasClean) ==
    /\ conn[c].ws \in {"CONNECTING", "OPEN", "CLOSING"}
    /\ wasClean => conn[c].ws # "CONNECTING"
    /\ conn' = [conn EXCEPT ![c].ws = "CLOSED",
                            ![c].reconnectTimer = ~wasClean]
    /\ ClientStep

\* the setTimeout callback of onclose: connect()
ReconnectTimer(c) ==
    /\ conn[c].reconnectTimer
    /\ conn[c].attempts < MaxAttempts
    /\ conn' = [conn EXCEPT ![c] = connect(c)]
    /\ ClientStep

\* close() of the returned object: clearTimeout(reconnectTimer) and
\* ws.close(1000, 'Client closing'), which starts the close of a socket that
\* is connecting or open
clientClose(c) ==
    /\ conn[c] # NoConnection
    /\ conn' = [conn EXCEPT ![c].reconnectTimer = FALSE,
                            ![c].closed = TRUE,
                            ![c].ws = IF @ \in {"CONNECTING", "OPEN"}
                                      THEN "CLOSING" ELSE @]
    /\ ClientStep

\* no client yet, beside a handler and an adapter that nothing calls
InitClient ==
    /\ maxConnections = DefaultMaxConnections
    /\ enableAuthentication = FALSE
    /\ requiredFields = {}
    /\ wireTap = FALSE
    /\ counting = FALSE
    /\ Constructed /\ isRunning = FALSE

\* clients are made, their sockets open and close, their reconnect timers
\* fire, and their callers close them
NextClient ==
    \/ \E c \in Clients : createRealtimeConnection(c)
    \/ \E c \in Clients : SocketOpens(c)
    \/ \E c \in Clients, wasClean \in BOOLEAN : SocketCloses(c, wasClean)
    \/ \E c \in Clients : ReconnectTimer(c)
    \/ \E c \in Clients : clientClose(c)

SpecClient == InitClient /\ [][NextClient]_vars

\* ======================================================================
\* Properties
\* ======================================================================
TornDown(s) == readyState[s] = "CLOSED"

\* feeds of table t that are delivering changes
ActiveFeeds(t) == {f \in DOMAIN feeds : feeds[f].table = t /\ feeds[f].active}

\* C1: every session identity in any room's member set is the identity of a
\* session in the active session registry.
C1_RoomMembersRegistered ==
    \A r \in DOMAIN rooms : rooms[r] \subseteq clients

\* C2: over join_room and leave_room messages, a room is present in the room
\* registry if and only if its current member set is non-empty.
C2_RoomPresentIffNonEmpty ==
    \A r \in RoomNames : MapHas(rooms, r) <=> MembersOf(r) # {}

\* C2 witness: after joins and leaves by two connected sessions, the room
\* "lobby" is present with session 2 as its only member and "db_t1" is absent.
C2_Witness ==
    /\ clients = {1, 2}
    /\ MapHas(rooms, "lobby") /\ rooms["lobby"] = {2}
    /\ ~MapHas(rooms, "db_t1")

\* C3: a room identifier that has a stored change-feed handle also has a room
\* in the registry (removing a resource room cancels its feed in the same step).
C3_FeedHandleHasRoom ==
    DOMAIN dbSubscriptions \subseteq DOMAIN rooms

\* a step in which session s, the only member of room db_<t>, sends
\* db_unsubscribe for t
LastMemberUnsubscribes(s, t) ==
    /\ MapHas(rooms, RoomOf(t))
    /\ rooms[RoomOf(t)] = {s}
    /\ handleDatabaseUnsubscribe(s, t)

\* C4: for each table at most one change feed is active at any time, and
\* when the last subscriber of a table with a feed unsubscribes, the feed's
\* cancellation handle has been invoked exactly once.
C4_OneFeedCancelledOnce ==
    [][/\ \A t \in Tables :
            Cardinality({f \in DOMAIN feeds' :
                            feeds'[f].table = t /\ feeds'[f].active}) <= 1
       /\ \A s \in Sessions, t \in Tables :
            (LastMemberUnsubscribes(s, t) /\ MapHas(dbSubscriptions, RoomOf(t)))
            => /\ feeds'[dbSubscriptions[RoomOf(t)].feed].cancelled = 1
               /\ ActiveFeeds(t)' = {}]_vars

\* C5: when the last member of room db_<table> sends db_unsubscribe, the room
\* is removed from the registry and the stored change-feed handle is removed,
\* so no room with zero members persists, whatever the storage collaborator.
C5_LastUnsubscribeRemovesRoom ==
    [][\A s \in Sessions, t \in Tables :
          LastMemberUnsubscribes(s, t)
          => /\ ~MapHas(rooms', RoomOf(t))
             /\ ~MapHas(dbSubscriptions', RoomOf(t))
             /\ \A r \in DOMAIN rooms' : rooms'[r] # {}]_vars

\* C6: a session closed for heartbeat timeout is, once torn down, a member
\* of no room.
C6_TimedOutSessionInNoRoom ==
    \A s \in Sessions :
        (TornDown(s) /\ closeReason[s] = "Heartbeat timeout")
        => \A r \in DOMAIN rooms : s \notin rooms[r]

\* a step that handles an inbound message or pong frame from session s
InboundFrom(s) ==
    \/ \E signal \in LivenessSignals : handleHeartbeat(s, signal)
    \/ \E r \in RoomNames : handleJoinRoom(s, r) \/ handleLeaveRoom(s, r)
    \/ \E t \in Tables : handleDatabaseSubscribe(s, t, NoFilters)
                          \/ handleDatabaseUnsubscribe(s, t)

ClosedForTimeout(s) ==
    closeReason[s] # "Heartbeat timeout" /\ closeReason'[s] = "Heartbeat timeout"

C8_TeardownExactlyOnce ==
    /\ \A s \in Sessions :
          /\ disconnected[s] <= 1
          /\ TornDown(s) <=> disconnected[s] = 1
          /\ s \in clients <=> readyState[s] \in {"OPEN", "CLOSING"}
    /\ connectionCount = Cardinality(clients)

\* C8 witness: a session closed by the heartbeat-timeout path whose close
\* event has been delivered.
C8_Witness ==
    \E s \in Sessions :
        /\ closeReason[s] = "Heartbeat timeout"
        /\ TornDown(s) /\ disconnected[s] = 1 /\ s \notin clients

\* C9: when the only member of resource room db_<table> is torn down, the
\* change feed of that table is cancelled exactly once in that step.
C9_TeardownCancelsFeed ==
    [][\A s \in Sessions, t \in Tables :
          (/\ CloseEvent(s)
           /\ MapHas(rooms, RoomOf(t)) /\ rooms[RoomOf(t)] = {s}
           /\ MapHas(dbSubscriptions, RoomOf(t)))
          => /\ feeds'[dbSubscriptions[RoomOf(t)].feed].cancelled = 1
             /\ ActiveFeeds(t)' = {}]_vars

TickOfDeadSocket(s) ==
    s \in due /\ s \notin due' /\ readyState[s] # "OPEN"

getStatusClients == clients

\* a connection the handler closed with the capacity status 1013
Rejected(s) == closeReason[s] = "Server overloaded"

\* C11: the number of registered sessions never exceeds maxConnections; a
\* connection that arrives while the ceiling is reached is closed at once
\* with the capacity status, gets no session entry, heartbeat timer or
\* welcome frame, leaves the connection count unchanged, and never appears
\* in getStatus().clients.
C11_CeilingRejects ==
    /\ [](/\ Cardinality(clients) <= maxConnections
          /\ \A s \in Sessions :
                Rejected(s) => /\ s \notin getStatusClients
                               /\ s \notin heartbeatTimers
                               /\ s \notin listening
                               /\ readyState[s] \in {"CLOSING", "CLOSED"})
    /\ [][\A s \in Sessions :
             (handleNewConnection(s) /\ Cardinality(clients) >= maxConnections)
             => /\ Rejected(s)'
                /\ readyState'[s] = "CLOSING"
                /\ \A f \in out' : f.to # s
                /\ UNCHANGED <<clients, connectionCount, heartbeatTimers>>]_vars

\* C11 witness: with a ceiling of one, the first connection is registered
\* and the second, arriving meanwhile, was rejected and its socket closed.
C11_Witness ==
    /\ maxConnections = 1
    /\ clients = {1} /\ readyState[1] = "OPEN"
    /\ Rejected(2) /\ readyState[2] = "CLOSED"
    /\ getStatusClients = {1} /\ connectionCount = 1

\* session s has to authenticate before it may use the data plane
MustAuthenticate(s) == enableAuthentication /\ ~isAuthenticated[s]

\* C12: when authentication is enabled, every data-plane message from a
\* session that is not yet authenticated is answered with the
\* 'Authentication required' error and changes nothing: no storage call, no
\* other frame, room membership and change feeds unchanged.
C12_UnauthenticatedChangesNothing ==
    [][\A s \in Sessions, kind \in DataPlane :
          (MustAuthenticate(s) /\ DataPlaneMessage(s, kind))
          => /\ out' = AuthRequired(s)
             /\ UNCHANGED <<rooms, dbSubscriptions, feeds, pending>>]_vars

\* the sessions the frames of the last step went to
SentTo(frames) == {f.to : f \in frames}

\* members of room r that are registered sessions with an open transport
LiveMembers(r) == {m \in MembersOf(r) : m \in clients /\ readyState[m] = "OPEN"}

\* a step that leaves sessions and rooms as they are, as the broadcast calls do
BroadcastStep == UNCHANGED <<readyState, rooms, authTimers>>

\* C13: broadcastToRoom delivers the message to exactly the members of the
\* room that are in the session registry with an open transport (and whose
\* send does not fail), skips stale identities and non-open transports, and
\* returns the number of sessions it delivered to; for a room that does not
\* exist it delivers nothing and returns 0.
C13_RoomBroadcastToLiveMembers ==
    [][BroadcastStep =>
       \A r \in RoomNames :
       \A failing \in SUBSET LiveMembers(r) :
          broadcastToRoom(r, failing)
          => /\ SentTo(out') = LiveMembers(r) \ failing
             /\ \A f \in out' : f.type = "broadcast" /\ f.about = r
             /\ sentCount' = Cardinality(LiveMembers(r) \ failing)
             /\ ~MapHas(rooms, r) => (out' = {} /\ sentCount' = 0)]_vars

\* C13 witness: a broadcast to room "lobby", whose members are the open
\* session 1 and the stale identity 2, was delivered to session 1 only and
\* returned 1.
C13_Witness ==
    /\ MapHas(rooms, "lobby") /\ rooms["lobby"] = {1, 2}
    /\ clients = {1} /\ readyState[1] = "OPEN"
    /\ out = {Frame(1, "broadcast", "room", "lobby")}
    /\ sentCount = 1

\* registered sessions with an open transport
OpenSessions == {m \in clients : readyState[m] = "OPEN"}

\* C14: in broadcastToRoom and broadcastToAll a send failure for one
\* recipient does not stop the delivery to the others: every other open
\* recipient receives the message, and the returned count is the number of
\* sends that succeeded.
C14_SendFailureIsolated ==
    [][BroadcastStep =>
       /\ \A failing \in SUBSET OpenSessions :
             broadcastToAll(failing)
             => /\ \A m \in OpenSessions \ failing :
                      Frame(m, "broadcast", "all", "") \in out'
                /\ sentCount' = Cardinality(out')
       /\ \A r \in RoomNames :
          \A failing \in SUBSET LiveMembers(r) :
             broadcastToRoom(r, failing)
             => /\ \A m \in LiveMembers(r) \ failing :
                      Frame(m, "broadcast", "room", r) \in out'
                /\ sentCount' = Cardinality(out')]_vars

\* C14 witness: a broadcastToAll with sessions 1 and 2 open in which the
\* send to session 1 failed was delivered to session 2 and returned 1.
C14_Witness ==
    /\ clients = {1, 2}
    /\ readyState[1] = "OPEN" /\ readyState[2] = "OPEN"
    /\ out = {Frame(2, "broadcast", "all", "")}
    /\ sentCount = 1

\* session s is a member of no room (as is every session that never joined
\* a room or subscribed to a table)
InNoRoom(s) == \A r \in DOMAIN rooms : s \notin rooms[r]

\* C15: a session that is in no room receives no frame from any
\* broadcastToRoom call, but receives every broadcastToAll message sent
\* while it is registered with an open transport (and its send succeeds).
C15_NoRoomNoRoomBroadcast ==
    [][BroadcastStep =>
       \A s \in Sessions :
          InNoRoom(s)
          => /\ \A r \in RoomNames :
                \A failing \in SUBSET LiveMembers(r) :
                   broadcastToRoom(r, failing) => s \notin SentTo(out')
             /\ \A failing \in SUBSET (OpenSessions \ {s}) :
                   (broadcastToAll(failing) /\ s \in OpenSessions)
                   => Frame(s, "broadcast", "all", "") \in out']_vars

\* C15 witness: with session 1 in room "lobby" and the open session 2 in no
\* room, a broadcastToAll was delivered to both.
C15_Witness ==
    /\ MapHas(rooms, "lobby") /\ rooms["lobby"] = {1}
    /\ InNoRoom(2) /\ readyState[2] = "OPEN" /\ 2 \in clients
    /\ out = {Frame(1, "broadcast", "all", ""), Frame(2, "broadcast", "all", "")}
    /\ sentCount = 2

\* the frames of the last step that went to session s
FramesTo(s, frames) == {f \in frames : f.to = s}

\* C16: when a db_update on table T is stored successfully, every member of
\* room db_T (the subscribers of T) that is still registered with an open
\* transport receives one db_change frame with action 'update' for T; no
\* session outside the room receives a db_change frame, so the writer
\* receives it only if it is itself subscribed and otherwise receives only
\* its db_update_response.
C16_UpdateReachesSubscribers ==
    [][pending' # pending =>
       \A call \in CallsOf({"db_update"}) :
          StorageSettles(call, TRUE)
          => /\ \A m \in LiveMembers(RoomOf(call.t)) :
                   Frame(m, "db_change", "update", call.t) \in out'
             /\ \A f \in out' :
                   f.type = "db_change"
                   => /\ f.to \in LiveMembers(RoomOf(call.t))
                      /\ f.detail = "update" /\ f.about = call.t
             /\ call.s \notin MembersOf(RoomOf(call.t))
                => FramesTo(call.s, out')
                      \subseteq {Frame(call.s, "db_update_response", "ok", call.t)}]_vars

\* C16 witness: session 1 is subscribed to t1, session 2 is not; the
\* db_update of session 2 on t1 was stored: session 1 received the db_change
\* frame and session 2 only its response.
C16_Witness ==
    /\ MapHas(rooms, "db_t1") /\ rooms["db_t1"] = {1}
    /\ out = {Frame(1, "db_change", "update", "t1"),
              Frame(2, "db_update_response", "ok", "t1")}

\* C17: a sensor_data message that passes validation and is stored
\* successfully is broadcast to the members of room db_<dbTableName>, in
\* addition to the response sent to the writer.
C17_SensorDataBroadcast ==
    [][pending' # pending =>
       \A call \in CallsOf({"sensor_data"}) :
          StorageSettles(call, TRUE)
          => \A m \in LiveMembers(RoomOf(dbTableName)) :
                \E f \in out' : f.to = m /\ f.type # "data_response"]_vars

\* the payload of a sensor_data message is not a mapping
NotMapping(data) == sensorDataOf(data).shape # "mapping"

\* the payload lacks a required field or has it empty
LacksRequired(data) ==
    \E field \in requiredFields :
        \/ field \notin DOMAIN sensorDataOf(data).fields
        \/ sensorDataOf(data).fields[field] \in {"null", ""}

\* C18: with data validation enabled, a sensor_data message whose payload is
\* not a mapping or lacks (or has empty) a required field yields a
\* validation-failure data_response to the sender only: no storage call is
\* made and no frame is sent to any other session.
C18_InvalidPayloadRejected ==
    [][\A s \in Sessions, data \in Payloads :
          (/\ handleSensorData(s, data)
           /\ enableDataValidation
           /\ NotMapping(data) \/ LacksRequired(data))
          => /\ out' = sendToClient(s, "data_response", "fail", "")
             /\ pending' = pending]_vars

\* type of the response frame of each message type that makes a storage call
ResponseType(op) == IF op = "sensor_data" THEN "data_response" ELSE op \o "_response"

\* C19: when the storage call made for a sensor_data, db_create, db_read,
\* db_update or db_delete message fails, the issuing session (if its socket
\* is still open) receives a response with success=false and nothing else is
\* sent: no db_change broadcast; no session's connection, no room
\* membership and no other pending storage call is affected.
C19_StorageFailureContained ==
    [][pending' # pending =>
       \A call \in CallsOf(StorageOps) :
          StorageSettles(call, FALSE)
          => /\ \A f \in out' :
                   /\ f.to = call.s /\ f.detail = "fail"
                   /\ f.type = ResponseType(call.op)
             /\ readyState[call.s] = "OPEN" => out' # {}
             /\ UNCHANGED <<readyState, clients, connectionCount, listening,
                            rooms, dbSubscriptions, feeds>>
             /\ \A c \in CallsOf(StorageOps) :
                   CopiesIn(c, pending') =
                      CopiesIn(c, pending) - (IF c = call THEN 1 ELSE 0)]_vars

\* C19 witness: session 1 is subscribed to t1 and has a db_read in flight;
\* the db_update of session 2 on t1 failed: session 2 received the failure
\* response, session 1 nothing, and the db_read is still in flight.
C19_Witness ==
    /\ MapHas(rooms, "db_t1") /\ rooms["db_t1"] = {1}
    /\ readyState[1] = "OPEN" /\ readyState[2] = "OPEN"
    /\ out = {Frame(2, "db_update_response", "fail", "t1")}
    /\ BagIn(Call("db_read", 1, "t1"), pending)

\* C20: an inbound frame whose type is not recognized, or that cannot be
\* decoded, produces exactly one error frame, sent to the sender only (none
\* when the socket of the sender is already closing); the connection of the
\* sender stays as it is, open and registered, and the rooms, the change
\* feeds, the storage calls and all other sessions are unchanged.
C20_UnknownFrameOnlyErrors ==
    [][\A s \in Sessions, decodable \in BOOLEAN :
          handleUnknownMessage(s, decodable)
          => /\ \A f \in out' : f.to = s /\ f.type = "error"
             /\ Cardinality(out') = IF readyState[s] = "OPEN" THEN 1 ELSE 0
             /\ UNCHANGED <<readyState, closeReason, clients, connectionCount,
                            listening, isAuthenticated, authTimers,
                            heartbeatTimers, rooms, dbSubscriptions, feeds,
                            pending>>]_vars

\* C20 witness: sessions 1 and 2 are subscribed to t1; a frame of session 1
\* that the router does not recognize was answered with one error frame to
\* session 1, which is still open and registered.
C20_Witness ==
    /\ MapHas(rooms, "db_t1") /\ rooms["db_t1"] = {1, 2}
    /\ readyState[1] = "OPEN" /\ readyState[2] = "OPEN" /\ clients = {1, 2}
    /\ out = {Frame(1, "error", "Unknown message type", "")}

\* message types whose handler broadcasts a db_change frame after its write
WriteOps == {"db_create", "db_update", "db_delete"}

RoomState == [rooms |-> rooms, dbSubscriptions |-> dbSubscriptions,
              feeds |-> feeds]

\* variant of leaveRoom that removes the room whenever the session that
\* leaves is not a member of it
leaveRoomDropsRoom(st, s, r) ==
    IF ~MapHas(st.rooms, r) THEN st
    ELSE IF s \notin st.rooms[r] \/ st.rooms[r] = {s}
    THEN [st EXCEPT !.rooms = MapDelete(st.rooms, r)]
    ELSE [st EXCEPT !.rooms = MapSet(st.rooms, r, st.rooms[r] \ {s})]

\* _handleLeaveRoom as a function of the room state st
leaveRoom(st, s, r) ==
    IF ~MapHas(st.rooms, r) THEN st
    ELSE IF st.rooms[r] \ {s} = {}
    THEN [st EXCEPT !.rooms = MapDelete(st.rooms, r)]
    ELSE [st EXCEPT !.rooms = MapSet(st.rooms, r, st.rooms[r] \ {s})]

\* _handleDatabaseUnsubscribe as a function of the room state st; the
\* TypeError of a handle that is not a function leaves the emptied room and
\* the handle in place
databaseUnsubscribe(st, s, t) ==
    LET roomId == RoomOf(t)
        left == MapSet(st.rooms, roomId, st.rooms[roomId] \ {s})
    IN IF ~MapHas(st.rooms, roomId) THEN st
       ELSE IF left[roomId] # {} THEN [st EXCEPT !.rooms = left]
       ELSE IF ~MapHas(st.dbSubscriptions, roomId)
       THEN [st EXCEPT !.rooms = MapDelete(left, roomId)]
       ELSE IF st.dbSubscriptions[roomId].kind # "function"
       THEN [st EXCEPT !.rooms = left]
       ELSE [rooms |-> MapDelete(left, roomId),
             dbSubscriptions |-> MapDelete(st.dbSubscriptions, roomId),
             feeds |-> [st.feeds EXCEPT ![st.dbSubscriptions[roomId].feed] =
                          [@ EXCEPT !.active = FALSE, !.cancelled = @ + 1]]]

\* the last step answered a leave_room of session s for room r
JustLeft(s, r) == Frame(s, "room_left", "", r) \in out

\* the last step answered a db_unsubscribe of session s for table t
JustUnsubscribed(s, t) == Frame(s, "db_unsubscribe_response", "ok", t) \in out

\* C22: leaving is idempotent. In every reachable room state, a leave_room
\* (a db_unsubscribe) applied twice by the same session to the same room
\* gives the room registry, memberships, feed handles and feeds that applying
\* it once gives, so the second cancels no feed; the handlers are these
\* functions of the room state, and a leave_room (db_unsubscribe) handled
\* right after the same message of the same session was answered changes
\* nothing.
C22_LeavingIdempotent ==
    /\ [](\A s \in Sessions :
             /\ \A r \in RoomNames :
                   leaveRoom(leaveRoom(RoomState, s, r), s, r)
                      = leaveRoom(RoomState, s, r)
             /\ \A t \in Tables :
                   databaseUnsubscribe(databaseUnsubscribe(RoomState, s, t), s, t)
                      = databaseUnsubscribe(RoomState, s, t))
    /\ [][\A s \in Sessions :
             /\ \A r \in RoomNames :
                   handleLeaveRoom(s, r)
                   => /\ RoomState' = leaveRoom(RoomState, s, r)
                      /\ JustLeft(s, r) => UNCHANGED RoomVars
             /\ \A t \in Tables :
                   handleDatabaseUnsubscribe(s, t)
                   => /\ RoomState' = databaseUnsubscribe(RoomState, s, t)
                      /\ JustUnsubscribed(s, t) => UNCHANGED RoomVars]_vars

\* C22 witness: with the FirebaseDB store, the db_unsubscribe of session 1,
\* the last subscriber of t1, was answered: the room and the handle are gone
\* and the feed was cancelled once; session 1 is open and can send it again.
C22_Witness ==
    /\ dbKind = "firebase"
    /\ JustUnsubscribed(1, "t1") /\ readyState[1] = "OPEN"
    /\ ~MapHas(rooms, "db_t1") /\ ~MapHas(dbSubscriptions, "db_t1")
    /\ Len(feeds) = 1 /\ feeds[1].cancelled = 1

\* the frames among frames that answer a storage request
Responses(frames) == {f \in frames : f.type \in {ResponseType(op) : op \in StorageOps}}

\* C23: with storage calls of several sessions in flight, whichever call
\* settles, with whatever result and after whatever other events, its
\* response goes only to the session that issued it, names the operation,
\* table and result of that call, and is sent exactly when the socket of
\* the issuer is still open: for an issuer that has disconnected meanwhile
\* no response is sent to any session.
C23_ResponseToIssuerOnly ==
    [][pending' # pending =>
       \A call \in CallsOf(StorageOps), ok \in BOOLEAN :
          StorageSettles(call, ok)
          => /\ Responses(out') \subseteq
                   {Frame(call.s, ResponseType(call.op),
                          IF ok THEN "ok" ELSE "fail",
                          IF call.op = "sensor_data" THEN "" ELSE call.t)}
             /\ Responses(out') # {} <=> readyState[call.s] = "OPEN"]_vars

\* C23 witness: the db_create of session 2 is in flight, session 2 has
\* disconnected, and the db_delete that session 1 issued was answered to
\* session 1 only.
C23_Witness ==
    /\ BagIn(Call("db_create", 2, "t1"), pending)
    /\ readyState[2] = "CLOSED" /\ readyState[1] = "OPEN"
    /\ out = {Frame(1, "db_delete_response", "ok", "t1")}

\* a storage call made for a message of session s has not settled yet
InFlight(s) == \E call \in CallsOf(StorageOps) : BagIn(call, pending) /\ call.s = s

\* a step that handles a message of session s that makes a storage call or
\* subscribes to a table
MessageFrom(s) ==
    \/ \E data \in Payloads : handleSensorData(s, data)
    \/ \E t \in Tables \cup {NoTable} :
          \/ handleDatabaseSubscribe(s, t, NoFilters)
          \/ handleDatabaseRead(s, t)
          \/ handleDatabaseDelete(s, t)
          \/ \E hasData \in BOOLEAN : handleDatabaseCreate(s, t, hasData)
          \/ \E hasData \in BOOLEAN : handleDatabaseUpdate(s, t, hasData)

\* C24: the frames of one session are answered in the order received: while
\* the handler of an earlier frame of session s is waiting on its storage
\* call, no response or broadcast is emitted for a later frame of s.
C24_FramesAnsweredInOrder ==
    [][\A s \in Sessions : (InFlight(s) /\ MessageFrom(s)) => out' = {}]_vars

\* C25: after the teardown of a session its state is frozen: its socket
\* stays closed, its authenticated flag, its liveness timestamp and its
\* message counter never change again and no frame is sent to it, whatever
\* fires afterwards (the close timer of a failed authentication, a heartbeat
\* tick, the result of a storage call it made).
C25_FrozenAfterTeardown ==
    [][\A s \in Sessions :
          TornDown(s)
          => /\ TornDown(s)'
             /\ isAuthenticated'[s] = isAuthenticated[s]
             /\ sinceLive'[s] = sinceLive[s]
             /\ dataReceived'[s] = dataReceived[s]
             /\ closeReason'[s] = closeReason[s]
             /\ FramesTo(s, out') = {}]_vars

\* C25 witness: session 1 sent a wrong token and was torn down by a close
\* of its peer; the close timer of the failed authentication and a tick of
\* its heartbeat timer are still to fire.
C25_Witness ==
    /\ TornDown(1) /\ closeReason[1] = "client"
    /\ ~isAuthenticated[1] /\ dataReceived[1] = 1
    /\ 1 \in authTimers /\ 1 \in due

\* C26: the authenticated flag of a session is true from its creation
\* exactly when authentication is disabled; with authentication enabled it
\* becomes true only in the handling of an auth message whose token equals
\* the configured token, an auth message with another token leaves it as it
\* is (false for a session that has not authenticated), and once true it is
\* never false again.
C26_AuthenticatedFlag ==
    /\ [](\A s \in listening : ~enableAuthentication => isAuthenticated[s])
    /\ [][\A s \in Sessions :
             /\ (handleNewConnection(s) /\ s \in listening')
                => isAuthenticated'[s] = ~enableAuthentication
             /\ (s \in listening /\ ~isAuthenticated[s] /\ isAuthenticated'[s])
                => enableAuthentication /\ handleAuthentication(s, TRUE)
             /\ (handleAuthentication(s, TRUE) /\ enableAuthentication)
                => isAuthenticated'[s]
             /\ (handleAuthentication(s, FALSE) /\ enableAuthentication)
                => isAuthenticated'[s] = isAuthenticated[s]
             /\ isAuthenticated[s] => isAuthenticated'[s]]_vars

\* C26 witness: with authentication enabled, session 1 sent a wrong token
\* and then the configured token and is authenticated; session 2 sent a
\* wrong token only and is not.
C26_Witness ==
    /\ enableAuthentication
    /\ isAuthenticated[1] /\ 1 \in authTimers /\ readyState[1] = "OPEN"
    /\ ~isAuthenticated[2] /\ 2 \in authTimers /\ readyState[2] = "OPEN"

\* C27: at each tick of the heartbeat timer of a session: if its socket is
\* not open the timer is cancelled and nothing is sent; otherwise, if more
\* than twice the heartbeat interval has passed since its last liveness
\* signal, the session is closed with the heartbeat-timeout status, the
\* timer is cancelled and nothing is sent; otherwise (at most 2H) a liveness
\* probe is sent to it, it stays open and its timer stays scheduled.
C27_HeartbeatTick ==
    [][\A s \in Sessions :
          (s \in due /\ HeartbeatTick(s))
          => /\ readyState[s] # "OPEN"
                => /\ s \notin heartbeatTimers' /\ out' = {}
                   /\ UNCHANGED <<readyState, closeReason>>
             /\ (readyState[s] = "OPEN" /\ sinceLive[s] > 2 * heartbeatInterval)
                => /\ readyState'[s] = "CLOSING"
                   /\ closeReason'[s] = "Heartbeat timeout"
                   /\ s \notin heartbeatTimers' /\ out' = {}
             /\ (readyState[s] = "OPEN" /\ sinceLive[s] <= 2 * heartbeatInterval)
                => /\ out' = {Frame(s, "ping", "", "")}
                   /\ s \in heartbeatTimers'
                   /\ UNCHANGED <<readyState, closeReason>>]_vars

\* C27 witness: session 2 has been closed for heartbeat timeout, and the
\* tick of session 1, exactly 2H after its last liveness signal, sent it a
\* probe and left it open.
C27_Witness ==
    /\ closeReason[2] = "Heartbeat timeout" /\ 2 \notin heartbeatTimers
    /\ readyState[1] = "OPEN" /\ sinceLive[1] = 2 * heartbeatInterval
    /\ out = {Frame(1, "ping", "", "")} /\ 1 \in heartbeatTimers

\* the last step answered a db_subscribe of session s for table t
JustSubscribed(s, t) == Frame(s, "db_subscribe_response", "ok", t) \in out

\* C28: joining is idempotent: a join_room or db_subscribe from a session
\* that is already a member of the room leaves the room registry and every
\* member set as they are; a db_subscribe for a room that has a stored feed
\* handle opens no feed, and a db_subscribe repeated right after the same
\* session subscribed to the table changes no room, handle or feed.
C28_JoiningIdempotent ==
    [][\A s \in Sessions :
          /\ \A r \in RoomNames :
                (handleJoinRoom(s, r) /\ s \in MembersOf(r))
                => UNCHANGED RoomVars
          /\ \A t \in Tables :
                handleDatabaseSubscribe(s, t, NoFilters)
                => /\ s \in MembersOf(RoomOf(t)) => rooms' = rooms
                   /\ MapHas(dbSubscriptions, RoomOf(t))
                      => UNCHANGED <<dbSubscriptions, feeds>>
                   /\ JustSubscribed(s, t) => UNCHANGED RoomVars]_vars

\* C28 witness: with the FirebaseDB store, sessions 1 and 2 are subscribed
\* to t1, the db_subscribe of session 1 was answered, and one feed exists.
C28_Witness ==
    /\ dbKind = "firebase"
    /\ MapHas(rooms, "db_t1") /\ rooms["db_t1"] = {1, 2}
    /\ JustSubscribed(1, "t1")
    /\ Len(feeds) = 1 /\ feeds[1].active

\* C29: every db_subscribe for table T, whatever its filters, puts the
\* session into the one room db_T and creates no other room; a table has at
\* most one active change feed; the room record gets the filters of the
\* message that created it and the feed those of the message that opened
\* it, and a db_subscribe that finds the room (the feed handle) leaves the
\* filters of the room (the feed and the handle) as they are; it sends
\* nothing to the other members, and every change the feed reports goes to
\* all live members of the room with the filters of the feed.
C29_SubscribersShareRoomAndFeed ==
    /\ [](\A t \in Tables : Cardinality(ActiveFeeds(t)) <= 1)
    /\ [][/\ \A s \in Sessions, t \in Tables, filters \in Filters :
               handleDatabaseSubscribe(s, t, filters)
               => /\ s \in rooms'[RoomOf(t)]
                  /\ DOMAIN rooms' = DOMAIN rooms \cup {RoomOf(t)}
                  /\ \A r \in DOMAIN rooms : rooms'[r] \ {s} = rooms[r] \ {s}
                  /\ IF MapHas(rooms, RoomOf(t))
                     THEN roomFilters' = roomFilters
                     ELSE roomFilters' = MapSet(roomFilters, RoomOf(t), filters)
                  /\ IF MapHas(dbSubscriptions, RoomOf(t)) \/ ~HasSubscribe
                     THEN UNCHANGED <<dbSubscriptions, feeds>>
                     ELSE /\ Len(feeds') = Len(feeds) + 1
                          /\ feeds'[Len(feeds')].filters = filters
                          /\ dbSubscriptions'[RoomOf(t)].feed = Len(feeds')
                          /\ \A f \in DOMAIN feeds : feeds'[f] = feeds[f]
                  /\ SentTo(out') \subseteq {s}
          /\ \A f \in DOMAIN feeds :
               FeedChange(f)
               => out' = {Frame(m, "db_realtime", feeds[f].filters, feeds[f].table) :
                             m \in LiveMembers(RoomOf(feeds[f].table))}]_vars

\* C29 witness: with the FirebaseDB store, session 1 subscribed to t1 with
\* filters and session 2 without; both are in room db_t1, whose record and
\* single feed have the filters of session 1, and a change the feed reported
\* went to both.
C29_Witness ==
    /\ dbKind = "firebase"
    /\ MapHas(rooms, "db_t1") /\ rooms["db_t1"] = {1, 2}
    /\ MapHas(roomFilters, "db_t1") /\ roomFilters["db_t1"] = "{zone: 'a'}"
    /\ Len(feeds) = 1 /\ feeds[1].filters = "{zone: 'a'}" /\ feeds[1].active
    /\ out = {Frame(1, "db_realtime", "{zone: 'a'}", "t1"),
              Frame(2, "db_realtime", "{zone: 'a'}", "t1")}

\* C30: in every reachable state, over start, accepted and rejected
\* connections, close events and stop (with the close events of the sessions
\* stop() closed delivered after it returned), connectionCount equals the
\* number of sessions in the registry and is never negative.
C30_CountMatchesRegistry ==
    connectionCount = Cardinality(clients) /\ connectionCount >= 0

\* the frames among frames that are broadcast to the members of a room: the
\* host's room broadcast, the db_change of a write and the db_realtime of a
\* change feed
RoomBroadcasts(frames) ==
    {f \in frames : \/ f.type \in {"db_change", "db_realtime"}
                    \/ f.type = "broadcast" /\ f.detail = "room"}

\* C31: with authentication enabled, a session that has not authenticated
\* never receives a db_change or db_realtime frame nor any other room
\* broadcast, whatever it sends, join_room included.
C31_NoBroadcastToUnauthenticated ==
    enableAuthentication
    => \A f \in RoomBroadcasts(out) : isAuthenticated[f.to]

\* C32: a session whose authenticated flag is true is never closed with the
\* status 'Authentication failed'; a session that sends a wrong token and
\* then the right one before the delayed close fires stays connected.
C32_AuthenticatedNotClosedForAuth ==
    \A s \in Sessions :
        isAuthenticated[s] => closeReason[s] # "Authentication failed"

\* C33: after WebsocketManager.stop() has completed, the server is not
\* running and does not start later, also when stop() is called in the delay
\* between initialize() and the scheduled start of the server.
C33_StoppedManagerStaysStopped == manager.stopped => ~isRunning

\* C34: when WebSocketHandler.stop() has completed, the session registry is
\* empty, no room remains in the room registry and no change feed is active
\* (every stored feed handle has been cancelled), so that a later start()
\* begins from an empty state.
C34_StopLeavesEmptyState ==
    [][stop => /\ clients' = {}
               /\ rooms' = EmptyMap
               /\ dbSubscriptions' = EmptyMap
               /\ \A f \in DOMAIN feeds' : ~feeds'[f].active]_vars

\* C35: a db_unsubscribe or leave_room from a session that is not a member of
\* the named room leaves the member set of the room, its existence and its
\* change feed as they are as long as other members remain; a change feed is
\* cancelled only in a step after which the room of its table has no
\* members.
C35_NonMemberLeaveHarmless ==
    [][/\ \A s \in Sessions, t \in Tables :
            (/\ MapHas(rooms, RoomOf(t))
             /\ s \notin rooms[RoomOf(t)]
             /\ rooms[RoomOf(t)] # {}
             /\ \/ handleDatabaseUnsubscribe(s, t)
                \/ handleLeaveRoom(s, RoomOf(t)))
            => /\ MapHas(rooms', RoomOf(t))
               /\ rooms'[RoomOf(t)] = rooms[RoomOf(t)]
               /\ dbSubscriptions' = dbSubscriptions
               /\ feeds' = feeds
       /\ \A f \in DOMAIN feeds :
            (feeds[f].active /\ ~feeds'[f].active)
            => MembersOf(RoomOf(feeds[f].table))' = {}]_vars

\* C35 witness: session 2, not a member of room db_t1, has just been
\* answered for its db_unsubscribe; session 1 is still a member and the
\* feed of the room still delivers.
C35_Witness ==
    /\ out = {Frame(2, "db_unsubscribe_response", "ok", "t1")}
    /\ MapHas(rooms, "db_t1") /\ rooms["db_t1"] = {1}
    /\ MapHas(dbSubscriptions, "db_t1")
    /\ feeds[dbSubscriptions["db_t1"].feed].active

\* C36: the adapter opens at most one connection per backend per
\* initialization, also when several operations are called on an adapter
\* that is not initialized yet; initialize() on an initialized adapter does
\* nothing.
C36_OneConnectionPerBackend == \A b \in Backends : opened[b] <= 1

\* a subscription that is registered: subscribe created it and nothing has
\* cancelled it
Live(id) == id \in 1..subscriptionCount /\ cancelled[id] = 0

\* C37: for every subscription made by subscribe the backend's cancel
\* function is invoked at most once, unsubscribe(id) returns true exactly
\* the first time for a live id and false with no effect otherwise, and
\* when close() has completed no subscription remains registered.
C37_SubscriptionsCancelledOnce ==
    /\ [](\A i \in SubscriptionIds : cancelled[i] <= 1)
    /\ [][\A id \in SomeIds :
             unsubscribe(id)
             => /\ returned' = IF Live(id) THEN "true" ELSE "false"
                /\ ~Live(id) => /\ cancelled' = cancelled
                                /\ subscriptions' = subscriptions]_vars
    /\ [][CloseSettles => subscriptions' = {}]_vars

\* C38: in hybrid mode a write returns the primary backend's result as soon
\* as the primary write succeeds; the write to the secondary backend is
\* attempted only after the primary succeeded and its failure never fails
\* or changes the result returned; when the primary write fails the error
\* is raised to the caller and no secondary write is attempted.
C38_SecondaryNeverChangesResult ==
    /\ [](\A o \in Ops :
             adapterOps[o].sync # "none"
             => /\ adapterOps[o].kind = "write" /\ dbType = "hybrid"
                /\ adapterOps[o].pc = "done"
                /\ adapterOps[o].result = "primary")
    /\ [][\A o \in Ops :
             (adapterOps[o].kind = "write" /\ dbType = "hybrid")
             => /\ PrimarySettles(o, TRUE)
                   => /\ adapterOps'[o].pc = "done"
                      /\ adapterOps'[o].result = "primary"
                      /\ adapterOps'[o].sync = "pending"
                /\ PrimarySettles(o, FALSE)
                   => /\ adapterOps'[o].pc = "done"
                      /\ adapterOps'[o].result = "error"
                      /\ adapterOps'[o].sync = "none"
                /\ adapterOps[o].pc = "done"
                   => /\ adapterOps'[o].result = adapterOps[o].result
                      /\ adapterOps[o].sync = "none"
                         => adapterOps'[o].sync = "none"]_vars

\* C38 witness: in hybrid mode a write has returned the primary's result and
\* its write to the secondary backend has failed since; another write
\* failed on the primary and attempted nothing on the secondary.
C38_Witness ==
    /\ dbType = "hybrid"
    /\ adapterOps[1] = [kind |-> "write", pc |-> "done", result |-> "primary",
                        sync |-> "failed", from |-> "mysql", failed |-> NoDb]
    /\ adapterOps[2] = [kind |-> "write", pc |-> "done", result |-> "error",
                        sync |-> "none", from |-> "mysql", failed |-> NoDb]

\* C39: getDataByFilters returns the primary backend's result whenever the
\* primary read succeeds and consults the secondary backend only when the
\* primary read fails; the fallback reads from a backend different from the
\* one that just failed, and with no secondary configured the primary's
\* error is raised to the caller.
C39_FallbackReadsOtherBackend ==
    /\ [](\A o \in Ops :
             adapterOps[o].pc = "fallback"
             => /\ adapterOps[o].kind = "read"
                /\ adapterOps[o].failed # NoDb
                /\ adapterOps[o].from # adapterOps[o].failed)
    /\ [][\A o \in Ops :
             adapterOps[o].kind = "read"
             => /\ PrimarySettles(o, TRUE)
                   => /\ adapterOps'[o].pc = "done"
                      /\ adapterOps'[o].result = "primary"
                /\ (PrimarySettles(o, FALSE) /\ secondaryDb = NoDb)
                   => /\ adapterOps'[o].pc = "done"
                      /\ adapterOps'[o].result = "error"]_vars

\* C40: once the caller of a connection made by createRealtimeConnection
\* has invoked close(), no new connection attempt is made: no reconnect
\* timer is pending or gets scheduled and connect() is not called again,
\* whatever the state of the connection at the close() and whether the close
\* event that follows is clean or not.
C40_NoReconnectAfterClose ==
    /\ [](\A c \in Clients : conn[c].closed => ~conn[c].reconnectTimer)
    /\ [][\A c \in Clients :
             conn[c].closed => conn'[c].attempts = conn[c].attempts]_vars
====
